---- MODULE Spec2Model ----
(***************************************************************************)
(* A model of the orchestration core of the ComfyUI MCP server:            *)
(*   - ErrorRecovery (strategies, circuit breakers) and                    *)
(*     ServerOrchestrator.executeWithRecovery,                             *)
(*   - the workflow orchestration tools (resolveDependencies,              *)
(*     create_workflow_chain, execute_workflow_chain),                     *)
(*   - ConnectionManager (connect, backoff, abandonment),                  *)
(*   - ProcessManager, StateManager, HealthMonitor and the orchestrator's  *)
(*     initialize and shutdown.                                            *)
(* The program is single-threaded and cooperative: one action of the model *)
(* is the code that runs between two suspension points (a network call, a  *)
(* timer), so concurrent calls interleave at their awaits only.            *)
(***************************************************************************)
EXTENDS Integers, Sequences, FiniteSets, TLC

VARIABLES
    \* ---- ErrorRecovery / executeWithRecovery
    erConfig,          \* orchestrator.errorRecovery present + ErrorRecovery.config
    now,               \* Date.now(), in milliseconds
    circuitBreakers,   \* ErrorRecovery.circuitBreakers: key -> breaker
    recoveryHistory,   \* length of ErrorRecovery.recoveryHistory
    erEmitted,         \* number of circuitBreakerOpen events emitted
    calls,             \* the executeWithRecovery calls in flight (their locals)
    callsStarted,      \* number of executeWithRecovery calls made so far
    activeOperations,  \* StateManager's toolState.activeOperations, as a set of ids
    \* ---- ErrorRecovery.handleError called directly
    heStrategies,      \* ErrorRecovery.strategies
    heCall,            \* the handleError call at hand (its locals)
    heLog,             \* the attempts of that call, in the order execute() was called
    heCalls,           \* number of direct handleError calls made
    \* ---- workflow orchestration
    workflowChains,    \* the chain stored by create_workflow_chain, or NoChain
    wfExec,            \* the ExecutionContext and the locals of execute_workflow_chain
    stepState,         \* step id -> state of its executeWorkflowStep promise
    submitted,         \* ids of the steps the external service accepted (POST /prompt)
    missingFiles,      \* ids of the steps that found no workflow file
    wfResponse,        \* what the last create / execute tool call returned
    wfReads,           \* number of get_execution_status calls made
    wfStatusReply,     \* what the last get_execution_status call returned
    \* ---- ConnectionManager
    connState,         \* ConnectionManager.state
    reconnectTimer,    \* the reconnect one-shot: none | pending | fired
    healthCheckTimer,  \* TRUE while the health-probe interval is set
    abandonedEmitted,  \* connectionAbandoned events since the last success or reset
    \* ---- ProcessManager (one process name)
    pmConfig,          \* configs.get(name): the ProcessConfig of the run
    orchAutoRestart,   \* ServerOrchestrator.config.autoRestart && !isShuttingDown
    pmInfos,           \* the ProcessInfo objects: id -> [status, restartCount]
    pmCurrent,         \* processes.get(name): id of the object in the map, 0 if none
    pmChildren,        \* the children alive: captured info, whether childProcesses holds it
    pmTimers,          \* the restart one-shots set, oldest first
    pmOps,             \* stopProcess / restartProcess / handleProcessFailure calls in flight
    pmStopReturned,    \* a stopProcess has returned and nothing was started since
    pmAutoSpawns,      \* children spawned by restart timers and by handleProcessFailure
    \* ---- ProcessManager.killAllComfyUIProcesses
    kaEnv,             \* what the host answers to the call's commands
    kaPc,              \* position of the call: idle | stopping | killing | ports | netsh | done
    kaIndex,           \* index of the kill command or of the port at hand
    kaResult,          \* the CleanupResult being built
    kaOutcome,         \* none | returned | thrown
    \* ---- StateManager
    smConfig,          \* StateManager.config
    smState,           \* StateManager.currentState
    smSessions,        \* number of session ids generated
    smClock,           \* number of mutations made (the instant of a new Date())
    smSnapshots,       \* StateManager.snapshots: the stored snapshot.state values
    smTaken,           \* for each stored snapshot, currentState as it was when taken
    smSnapshotTimer,   \* TRUE while the snapshot interval is set
    smAutoSaveTimer,   \* what autoSaveTimer holds: none | interval | timeout | fired
    smSaves,           \* the saveState() calls in flight, oldest first
    smFile,            \* the state in the state file, "none" if there is no file
    smDestroyed,       \* destroy() was called
    \* ---- HealthMonitor
    hmConfig,          \* HealthMonitor.config: the two thresholds
    hmMonitoring,      \* HealthMonitor.isMonitoring (the interval is set)
    hmPending,         \* performHealthCheck() calls awaiting their readings
    hmLast,            \* lastHealthMetrics, NoMetrics before the first check
    hmConsecutiveFailures,  \* HealthMonitor.consecutiveFailures
    hmPrevHealth,      \* overallHealth of the check completed before the last one
    hmStatusChanged,   \* the last completed check emitted healthStatusChanged
    \* ---- ServerOrchestrator.initialize / shutdown
    orEnv,             \* which listeners of the orchestrator's events throw
    orInitialized,     \* ServerOrchestrator.isInitialized
    orShuttingDown,    \* ServerOrchestrator.isShuttingDown
    orCalls,           \* number of initialize() and shutdown() calls made
    orInits,           \* initialize() calls awaiting their connect()
    orConnects,        \* connectionManager.connect() calls made
    orShutdown,        \* the shutdown() that set the flag: idle | saving | returned | thrown
    orTeardown,        \* teardown step -> number of times shutdown() invoked it
    orConnectsAtDestroy, \* orConnects as it was when connectionManager.destroy() ran
    \* ---- ServerOrchestrator.handleCriticalFailure
    crCall,            \* the call at hand: its type, its position, the state it found
    \* ---- StateManager.loadPersistedState
    ldLoad,            \* the constructor's load: none | pathExists | readJson | loaded
    \* ---- ServerState.connectionState, as the orchestrator's listeners publish it
    stIsConnected,     \* ServerState.connectionState.isConnected
    stRestarts         \* emergencyRestart() calls awaiting their sweep

erVars == <<erConfig, now, circuitBreakers, recoveryHistory, erEmitted, calls, callsStarted, activeOperations>>
heVars == <<heStrategies, heCall, heLog, heCalls>>
wfReadVars == <<wfReads, wfStatusReply>>
wfVars == <<workflowChains, wfExec, stepState, submitted, missingFiles, wfResponse,
           wfReadVars>>

cmVars == <<connState, reconnectTimer, healthCheckTimer, abandonedEmitted>>

pmVars == <<pmConfig, orchAutoRestart, pmInfos, pmCurrent, pmChildren, pmTimers, pmOps,
           pmStopReturned, pmAutoSpawns>>

kaVars == <<kaEnv, kaPc, kaIndex, kaResult, kaOutcome>>

smVars == <<smConfig, smState, smSessions, smClock, smSnapshots, smTaken, smSnapshotTimer,
           smAutoSaveTimer, smSaves, smFile, smDestroyed>>

hmVars == <<hmConfig, hmMonitoring, hmPending, hmLast, hmConsecutiveFailures, hmPrevHealth,
           hmStatusChanged>>

orVars == <<orEnv, orInitialized, orShuttingDown, orCalls, orInits, orConnects, orShutdown,
           orTeardown, orConnectsAtDestroy>>

crVars == <<crCall>>
ldVars == <<ldLoad>>
pubVars == <<stIsConnected, stRestarts>>

vars == <<erVars, heVars, wfVars, cmVars, pmVars, kaVars, smVars, hmVars, orVars, crVars, ldVars, pubVars>>

\* what the actions of one component leave alone: the other components
erFrame == <<heVars, wfVars, cmVars, pmVars, kaVars, smVars, hmVars, orVars, crVars, ldVars, pubVars>>
\* what a direct handleError call leaves alone besides the ErrorRecovery state
heFrame == <<wfVars, cmVars, pmVars, kaVars, smVars, hmVars, orVars, crVars, ldVars, pubVars>>
\* what get_execution_status leaves alone besides the workflow tables
wfReadFrame == <<erVars, heVars, cmVars, pmVars, kaVars, smVars, hmVars, orVars, crVars, ldVars, pubVars>>
\* what create_workflow_chain and execute_workflow_chain leave alone
wfFrame == <<wfReadVars, wfReadFrame>>
cmFrame == <<erVars, heVars, wfVars, pmVars, kaVars, smVars, hmVars, orVars, crVars, ldVars, pubVars>>
pmFrame == <<erVars, heVars, wfVars, cmVars, kaVars, smVars, hmVars, orVars, crVars, ldVars, pubVars>>
kaFrame == <<erVars, heVars, wfVars, cmVars, pmVars, smVars, hmVars, orVars, crVars, ldVars, pubVars>>
smFrame == <<erVars, heVars, wfVars, cmVars, pmVars, kaVars, hmVars, orVars, crVars, ldVars, pubVars>>
ldFrame == <<erVars, heVars, wfVars, cmVars, pmVars, kaVars, hmVars, orVars, crVars, pubVars>>
\* the connection listeners reach into the connection and state managers
pubFrame == <<erVars, heVars, wfVars, pmVars, kaVars, hmVars, orVars, crVars, ldVars>>
hmFrame == <<erVars, heVars, wfVars, cmVars, pmVars, kaVars, smVars, orVars, crVars, ldVars, pubVars>>
\* initialize() and shutdown() reach into the connection, health and state managers
orFrame == <<erVars, heVars, wfVars, pmVars, kaVars, crVars, ldVars, pubVars>>

(***************************************************************************)
(* Bounds of the model.                                                    *)
(***************************************************************************)
MaxAdded == 1          \* strategies added with addStrategy after construction
MaxAddedAttempts == 2  \* maxAttempts of an added strategy
MaxHandleCalls == 2    \* direct handleError calls made in one behaviour
MaxCalls == 4          \* executeWithRecovery calls made in one behaviour
MaxTicks == 2          \* clock advances in one behaviour
MaxSteps == 3          \* steps of a workflow chain
MaxDeps == 2           \* dependencies listed by one step
MaxConcurrencyLimit == 2  \* the largest maxConcurrency a chain of the model sets
MaxReads == 2          \* get_execution_status calls made in one behaviour
MaxExtraConnects == 2  \* failed connect() calls made after the attempts are exhausted
MaxChildren == 2       \* children of one process name alive at once
MaxTimers == 2         \* restart one-shots set at once
MaxOps == 1            \* calls of one kind waiting at once (stopProcess, restartProcess, ...)
MaxAutoSpawns == 3     \* children spawned without a caller's request in one behaviour
MaxConfiguredRestarts == 2  \* the largest maxRestarts a config of the model sets
MaxLines == 2          \* netstat lines carrying a pid for one port
MaxMutations == 2      \* StateManager mutations in one behaviour
MaxSnapshots == 2      \* StateManagerConfig.maxSnapshots (the orchestrator passes 100)
MaxSaves == 2          \* saveState() calls in flight at once
MaxCritical == 1       \* the largest criticalErrors an update sets
MaxPending == 2        \* health checks awaiting their readings at once
MaxFailures == 2       \* consecutive readings that are not healthy
MaxInitCalls == 3      \* initialize() calls made in one behaviour
MaxShutdownCalls == 2  \* shutdown() calls made in one behaviour

\* ErrorRecoveryConfig.circuitBreakerThreshold is configurable (the
\* orchestrator passes 5); the model runs with a small threshold.
circuitBreakerThreshold == 2

(***************************************************************************)
(* Program constants.                                                      *)
(***************************************************************************)
circuitBreakerTimeout == 60000
maxHistorySize == 1000
maxReconnectAttempts == 10
baseReconnectDelay == 2000
maxReconnectDelay == 30000
JitterRange == 1000    \* Math.random() * 1000 lies in [0, JitterRange)
defaultMaxRestarts == 5
NumKillCommands == 3   \* killCommands.length
NumPorts == 6          \* ports.length
healthThreshold == 70  \* the default of HealthMonitorConfig.healthThreshold
criticalThreshold == 30  \* the default of HealthMonitorConfig.criticalThreshold
heapLimit == 104857600       \* 100 * 1024 * 1024
memoryHeadroom == 1073741824 \* 1024 * 1024 * 1024

\* The clock advances by one breaker timeout at a time: after one advance
\* now - lastFailure can equal the timeout exactly, after two it exceeds it.
TimeStep == circuitBreakerTimeout

Calls == {"c1", "c2"}                 \* concurrent callers of executeWithRecovery
Keys == {"tool_op"}                   \* operationKey = `${toolName}_${operation}`

(***************************************************************************)
(* ErrorRecovery.registerDefaultStrategies: the strategies after the       *)
(* addStrategy calls (each sorts by ascending priority).  suspends: the    *)
(* execute callback awaits a fetch or a timer; canFail: it can return      *)
(* false.                                                                  *)
(***************************************************************************)
DefaultStrategies ==
    << [name |-> "connection_recovery", priority |-> 1, maxAttempts |-> 5,
        suspends |-> TRUE, canFail |-> TRUE],
       [name |-> "process_recovery", priority |-> 2, maxAttempts |-> 3,
        suspends |-> TRUE, canFail |-> TRUE],
       [name |-> "state_reset", priority |-> 3, maxAttempts |-> 2,
        suspends |-> TRUE, canFail |-> FALSE],
       [name |-> "graceful_degradation", priority |-> 10, maxAttempts |-> 1,
        suspends |-> FALSE, canFail |-> FALSE] >>

\* What an error's message (and tool name, severity) makes the conditions of
\* the first three strategies evaluate to: the set of strategies it matches.
ErrorKinds ==
    { {}, {"connection_recovery"}, {"process_recovery"},
      {"connection_recovery", "process_recovery"}, {"state_reset"} }

\* every condition reads the error only
ConditionOnErrorOnly(s, matches, cfg) == s.name \in matches

\* strategy.condition(context)
Condition(s, matches, cfg) ==
    IF s.name = "graceful_degradation"
    THEN cfg.enableGracefulDegradation
    ELSE s.name \in matches

\* this.strategies.filter(strategy => strategy.condition(context))
ApplicableStrategies(matches, cfg) ==
    SelectSeq(DefaultStrategies, LAMBDA s : Condition(s, matches, cfg))

NoBreaker == [present |-> FALSE, failures |-> 0, lastFailure |-> 0, isOpen |-> FALSE]

\* isCircuitOpen's test of the timeout
TimeoutElapsed(b, t) == t - b.lastFailure > circuitBreakerTimeout

\* ErrorRecovery.isCircuitOpen: its result and the breaker it leaves
\* (isCircuitOpenEarly: the breaker closes when the timeout is reached)
isCircuitOpenEarly(b, t) ==
    IF b.present /\ b.isOpen
    THEN IF t - b.lastFailure >= circuitBreakerTimeout
         THEN [open |-> FALSE, breaker |-> [b EXCEPT !.isOpen = FALSE, !.failures = 0]]
         ELSE [open |-> TRUE, breaker |-> b]
    ELSE [open |-> FALSE, breaker |-> b]

isCircuitOpen(b, t) ==
    IF ~b.present THEN [open |-> FALSE, breaker |-> b]
    ELSE IF b.isOpen
         THEN IF TimeoutElapsed(b, t)
              THEN [open |-> FALSE, breaker |-> [b EXCEPT !.isOpen = FALSE, !.failures = 0]]
              ELSE [open |-> TRUE, breaker |-> b]
         ELSE [open |-> FALSE, breaker |-> b]

\* recordCircuitBreakerFailure's test of the threshold
ThresholdReached(failures) == failures >= circuitBreakerThreshold

\* ErrorRecovery.recordCircuitBreakerFailure
recordCircuitBreakerFailure(b, t, cfg) ==
    IF ~cfg.enableCircuitBreaker THEN b
    ELSE [present |-> TRUE,
          failures |-> b.failures + 1,
          lastFailure |-> t,
          isOpen |-> (b.isOpen \/ ThresholdReached(b.failures + 1))]

\* ErrorRecovery.resetCircuitBreaker
resetCircuitBreaker(b) ==
    IF b.present THEN [b EXCEPT !.failures = 0, !.isOpen = FALSE] ELSE b

\* ErrorRecovery.addToHistory
addToHistory(h) == IF h + 1 > maxHistorySize THEN h ELSE h + 1

(***************************************************************************)
(* executeWithRecovery: the locals of one call.                            *)
(*   pc: idle | exec1 | recovering | exec2 | returned | threw              *)
(*   thrown: the error the call threw: E1 is the first invocation's error, *)
(*           E2 the second's.                                              *)
(***************************************************************************)
\* no Date.now() was taken
NoTime == -1

\* `${toolName}_${operation}_${Date.now()}` of call c, for the tool and
\* operation of key k at time t: two calls for the same tool and operation
\* started within one millisecond build the same string
operationId(c, k, t) == <<k, t>>

\* addActiveOperation(operationId): pushed unless already listed
addActiveOperation(ops, id) == ops \cup {id}

\* removeActiveOperation(operationId): spliced out if listed
removeActiveOperation(ops, id) == ops \ {id}

\* recordToolCall(toolName, success) made by a call: toolCallCount++ and,
\* if not success, failedToolCalls++ (followed as the call's own share of
\* the two counters)
recordToolCall(call, success) ==
    [call EXCEPT !.toolCalls = @ + 1,
                 !.failedToolCalls = IF success THEN @ ELSE @ + 1]

IdleCall ==
    [pc |-> "idle", key |-> "none", matches |-> {}, strategy |-> 0, attempt |-> 0,
     execCount |-> 0, recovered |-> "none", thrown |-> "none", handled |-> 0,
     startedAt |-> NoTime, toolCalls |-> 0, failedToolCalls |-> 0]

ERConfigs ==
    { [errorRecovery |-> TRUE, enableGracefulDegradation |-> TRUE, enableCircuitBreaker |-> TRUE],
      [errorRecovery |-> TRUE, enableGracefulDegradation |-> FALSE, enableCircuitBreaker |-> TRUE],
      [errorRecovery |-> TRUE, enableGracefulDegradation |-> FALSE, enableCircuitBreaker |-> FALSE],
      [errorRecovery |-> FALSE, enableGracefulDegradation |-> FALSE, enableCircuitBreaker |-> FALSE] }

\* the ErrorRecovery and orchestrator state after construction
ERStart(cfg) ==
    /\ erConfig = cfg
    /\ now = 0
    /\ circuitBreakers = [k \in Keys |-> NoBreaker]
    /\ recoveryHistory = 0
    /\ erEmitted = 0
    /\ calls = [c \in Calls |-> IdleCall]
    /\ callsStarted = 0
    /\ activeOperations = {}

\* the orchestrator's own configuration (initializeComponents)
OrchestratorERConfig ==
    [errorRecovery |-> TRUE, enableGracefulDegradation |-> TRUE, enableCircuitBreaker |-> TRUE]

\* executeWithRecovery up to `await executor()`
ExecuteWithRecovery(c, k) ==
    /\ calls[c].pc \in {"idle", "returned", "threw"}
    /\ callsStarted < MaxCalls
    /\ callsStarted' = callsStarted + 1
    /\ calls' = [calls EXCEPT ![c] = recordToolCall([IdleCall EXCEPT !.pc = "exec1", !.key = k,
                                                                      !.execCount = 1,
                                                                      !.startedAt = now], TRUE)]
    /\ activeOperations' = addActiveOperation(activeOperations, operationId(c, k, now))
    /\ UNCHANGED <<erConfig, now, circuitBreakers, recoveryHistory, erEmitted>>
    /\ UNCHANGED erFrame

\* the executor's promise fulfils (first or second invocation)
ExecutorFulfils(c) ==
    /\ calls[c].pc \in {"exec1", "exec2"}
    /\ IF calls[c].pc = "exec1"
       THEN /\ calls' = [calls EXCEPT ![c].pc = "returned", ![c].startedAt = NoTime]
            /\ activeOperations' = removeActiveOperation(activeOperations,
                                        operationId(c, calls[c].key, calls[c].startedAt))
       ELSE /\ calls' = [calls EXCEPT ![c] = recordToolCall([@ EXCEPT !.pc = "returned"], TRUE)]
            /\ UNCHANGED activeOperations
    /\ UNCHANGED <<erConfig, now, circuitBreakers, recoveryHistory, erEmitted, callsStarted>>
    /\ UNCHANGED erFrame

\* a retry whatever handleError returned
RetryAlways(recovered) == TRUE

\* `if (recovered)`: whether the executor is invoked again
RetryAfter(recovered) == recovered

\* the first error wrapped in a new one
RethrowWrapped == "RecoveryFailed(E1)"

\* `throw error`: what the call throws when there was no recovery
RethrowUnrecovered == "E1"

\* the call's locals when handleError has returned `recovered`
AfterHandleError(call, recovered) ==
    IF RetryAfter(recovered)
    THEN [call EXCEPT !.pc = "exec2", !.execCount = @ + 1,
                      !.recovered = IF recovered THEN "true" ELSE "false",
                      !.matches = {}, !.strategy = 0, !.attempt = 0]
    ELSE [call EXCEPT !.pc = "threw", !.thrown = RethrowUnrecovered,
                      !.recovered = IF recovered THEN "true" ELSE "false",
                      !.matches = {}, !.strategy = 0, !.attempt = 0]

\* executeStrategy entered for the i-th applicable strategy: a strategy whose
\* execute does not suspend (graceful_degradation) has returned true at once
EnterStrategy(c, call, i, breakers, applicable) ==
    LET s == applicable[i] IN
    IF s.suspends
    THEN /\ calls' = [calls EXCEPT ![c] = [call EXCEPT !.pc = "recovering", !.strategy = i, !.attempt = 1]]
         /\ circuitBreakers' = breakers
         /\ recoveryHistory' = recoveryHistory
    ELSE /\ calls' = [calls EXCEPT ![c] = AfterHandleError(call, TRUE)]
         /\ circuitBreakers' = [breakers EXCEPT ![call.key] = resetCircuitBreaker(@)]
         /\ recoveryHistory' = addToHistory(recoveryHistory)

\* the first invocation rejects: the catch block of executeWithRecovery and
\* handleError up to its first await
ExecutorRejectsFirst(c, m) ==
    /\ calls[c].pc = "exec1"
    /\ LET k == calls[c].key
           failed == recordToolCall([calls[c] EXCEPT !.startedAt = NoTime], FALSE)
           call == [failed EXCEPT !.matches = m]
           chk == isCircuitOpen(circuitBreakers[k], now)
           checked == IF erConfig.enableCircuitBreaker
                      THEN [circuitBreakers EXCEPT ![k] = chk.breaker]
                      ELSE circuitBreakers
           applicable == ApplicableStrategies(m, erConfig)
       IN IF ~erConfig.errorRecovery
          THEN /\ calls' = [calls EXCEPT ![c] = [failed EXCEPT !.pc = "threw", !.thrown = RethrowUnrecovered]]
               /\ UNCHANGED <<circuitBreakers, recoveryHistory, erEmitted>>
          ELSE IF erConfig.enableCircuitBreaker /\ chk.open
          THEN /\ erEmitted' = erEmitted + 1
               /\ calls' = [calls EXCEPT ![c] = AfterHandleError([call EXCEPT !.handled = @ + 1], FALSE)]
               /\ UNCHANGED <<circuitBreakers, recoveryHistory>>
          ELSE IF Len(applicable) = 0
          THEN /\ circuitBreakers' = [checked EXCEPT ![k] = recordCircuitBreakerFailure(@, now, erConfig)]
               /\ calls' = [calls EXCEPT ![c] = AfterHandleError([call EXCEPT !.handled = @ + 1], FALSE)]
               /\ UNCHANGED <<recoveryHistory, erEmitted>>
          ELSE /\ EnterStrategy(c, [call EXCEPT !.handled = @ + 1], 1, checked, applicable)
               /\ UNCHANGED erEmitted
    /\ activeOperations' = removeActiveOperation(activeOperations,
                                operationId(c, calls[c].key, calls[c].startedAt))
    /\ UNCHANGED <<erConfig, now, callsStarted>>
    /\ UNCHANGED erFrame

\* one attempt of the current strategy settles (strategy.execute resolved with
\* ok), and executeStrategy / handleError run on to the next await
StrategyAttemptSettles(c, ok) ==
    /\ calls[c].pc = "recovering"
    /\ LET call == calls[c]
           k == call.key
           applicable == ApplicableStrategies(call.matches, erConfig)
           s == applicable[call.strategy]
       IN /\ (ok = FALSE => s.canFail)
          /\ IF ok
             THEN /\ calls' = [calls EXCEPT ![c] = AfterHandleError(call, TRUE)]
                  /\ circuitBreakers' = [circuitBreakers EXCEPT ![k] = resetCircuitBreaker(@)]
                  /\ recoveryHistory' = addToHistory(recoveryHistory)
             ELSE IF call.attempt < s.maxAttempts
             THEN /\ calls' = [calls EXCEPT ![c].attempt = @ + 1]
                  /\ recoveryHistory' = addToHistory(recoveryHistory)
                  /\ UNCHANGED circuitBreakers
             ELSE IF call.strategy < Len(applicable)
             THEN /\ EnterStrategy(c, call, call.strategy + 1, circuitBreakers, applicable)
                  /\ TRUE
             ELSE /\ circuitBreakers' = [circuitBreakers EXCEPT ![k] = recordCircuitBreakerFailure(@, now, erConfig)]
                  /\ calls' = [calls EXCEPT ![c] = AfterHandleError(call, FALSE)]
                  /\ recoveryHistory' = addToHistory(recoveryHistory)
    /\ UNCHANGED <<erConfig, now, erEmitted, callsStarted, activeOperations>>
    /\ UNCHANGED erFrame

\* the second invocation rejects: `throw retryError`
ExecutorRejectsSecond(c) ==
    /\ calls[c].pc = "exec2"
    /\ calls' = [calls EXCEPT ![c].pc = "threw", ![c].thrown = "E2"]
    /\ UNCHANGED <<erConfig, now, circuitBreakers, recoveryHistory, erEmitted, callsStarted, activeOperations>>
    /\ UNCHANGED erFrame

\* time passes
Tick ==
    /\ now < MaxTicks * TimeStep
    /\ now' = now + TimeStep
    /\ UNCHANGED <<erConfig, circuitBreakers, recoveryHistory, erEmitted, calls, callsStarted, activeOperations>>
    /\ UNCHANGED erFrame

ERNext ==
    \/ \E c \in Calls, k \in Keys : ExecuteWithRecovery(c, k)
    \/ \E c \in Calls : ExecutorFulfils(c)
    \/ \E c \in Calls, m \in ErrorKinds : ExecutorRejectsFirst(c, m)
    \/ \E c \in Calls, ok \in BOOLEAN : StrategyAttemptSettles(c, ok)
    \/ \E c \in Calls : ExecutorRejectsSecond(c)
    \/ Tick

(***************************************************************************)
(* ErrorRecovery.handleError called directly (as handleProcessError does), *)
(* one call at a time, with strategies added by addStrategy.  A strategy   *)
(* added at run time has a condition that holds or not for the error at    *)
(* hand (applies) and an execute callback that may return true, return     *)
(* false or throw; the four default ones behave as in DefaultStrategies.   *)
(* heLog lists the attempts of the current call in the order execute() was *)
(* called.  The call uses the breaker and the history of the ErrorRecovery *)
(* section.                                                                *)
(***************************************************************************)
HEKey == CHOOSE k \in Keys : TRUE

\* the strategies addStrategy is called with in the model
AddedNames == <<"added1", "added2", "added3", "added4">>

AddedStrategies ==
    [name : {AddedNames[i] : i \in 1 .. Len(AddedNames)}, priority : {0, 2, 5}, maxAttempts : 1 .. MaxAddedAttempts,
     applies : BOOLEAN]

\* the position a stable sort by ascending priority gives to an element
\* inserted at the end of a sorted list
RECURSIVE InsertSorted(_, _)
InsertSorted(sorted, s) ==
    IF Len(sorted) = 0 THEN <<s>>
    ELSE LET last == sorted[Len(sorted)] IN
         IF last.priority <= s.priority
         THEN Append(sorted, s)
         ELSE Append(InsertSorted(SubSeq(sorted, 1, Len(sorted) - 1), s), last)

\* Array.prototype.sort((a, b) => a.priority - b.priority), which is stable
RECURSIVE SortByPriority(_)
SortByPriority(list) ==
    IF Len(list) = 0 THEN <<>>
    ELSE InsertSorted(SortByPriority(SubSeq(list, 1, Len(list) - 1)), list[Len(list)])

\* the strategies stay in the order of the addStrategy calls
addStrategyUnsorted(list, s) == Append(list, s)

\* addStrategy(strategy): push, then sort
addStrategy(list, s) == SortByPriority(Append(list, s))

\* the default strategies as the constructor's addStrategy calls leave them;
\* their condition is looked up with Condition
RegisteredDefaults ==
    [i \in 1 .. Len(DefaultStrategies) |->
        [name |-> DefaultStrategies[i].name, priority |-> DefaultStrategies[i].priority,
         maxAttempts |-> DefaultStrategies[i].maxAttempts, applies |-> FALSE]]

DefaultNames == {DefaultStrategies[i].name : i \in 1 .. Len(DefaultStrategies)}

\* strategy.condition(context) for a registered strategy
HECondition(s, matches, cfg) ==
    IF s.name \notin DefaultNames THEN s.applies
    ELSE Condition(s, matches, cfg)

\* the outcomes execute() of a strategy can have
Outcomes(s) ==
    IF s.name \notin DefaultNames THEN {"true", "false", "throws"}
    ELSE IF s.name \in {"connection_recovery", "process_recovery"} THEN {"true", "false"}
    ELSE {"true"}

HEIdle == [pc |-> "idle", applicable |-> <<>>, index |-> 0, attempt |-> 0, result |-> FALSE,
           entry |-> [breaker |-> NoBreaker, history |-> 0], tried |-> FALSE]

\* the state of the added strategies and of the direct call after construction
HEStart ==
    /\ heStrategies = RegisteredDefaults
    /\ heCall = HEIdle
    /\ heLog = <<>>
    /\ heCalls = 0

\* execute(context, attempt) of strategy s is called
Attempted(log, s, attempt) ==
    Append(log, [name |-> s.name, priority |-> s.priority, attempt |-> attempt,
                 outcome |-> "pending"])

\* the attempt in flight has the given outcome
Settle(log, outcome) == [log EXCEPT ![Len(log)].outcome = outcome]

\* a caller's addStrategy(strategy)
AddStrategy(s) ==
    /\ Len(heStrategies) < Len(DefaultStrategies) + MaxAdded
    /\ s.name = AddedNames[Len(heStrategies) - Len(DefaultStrategies) + 1]
    /\ heStrategies' = addStrategy(heStrategies, s)
    /\ UNCHANGED <<heCall, heLog, heCalls>>
    /\ UNCHANGED erVars
    /\ UNCHANGED heFrame

\* a thrown attempt is not recorded
addThrownToHistory(h) == h

\* executeStrategy, the catch block: this.addToHistory(recoveryAttempt)
addFailedToHistory(h) == addToHistory(h)

\* handleError(context) up to its first await
HandleError(matches) ==
    /\ heCall.pc \in {"idle", "returned"}
    /\ heCalls < MaxHandleCalls
    /\ heCalls' = heCalls + 1
    /\ LET chk == isCircuitOpen(circuitBreakers[HEKey], now)
           checked == IF erConfig.enableCircuitBreaker
                      THEN [circuitBreakers EXCEPT ![HEKey] = chk.breaker]
                      ELSE circuitBreakers
           applicable == SelectSeq(heStrategies,
                                   LAMBDA s : HECondition(s, matches, erConfig))
           entry == [breaker |-> checked[HEKey], history |-> recoveryHistory]
       IN  IF erConfig.enableCircuitBreaker /\ chk.open
           THEN /\ erEmitted' = erEmitted + 1
                /\ heCall' = [HEIdle EXCEPT !.pc = "returned", !.entry = entry]
                /\ heLog' = <<>>
                /\ UNCHANGED circuitBreakers
           ELSE IF Len(applicable) = 0
           THEN /\ circuitBreakers' =
                        [checked EXCEPT ![HEKey] = recordCircuitBreakerFailure(@, now, erConfig)]
                /\ heCall' = [HEIdle EXCEPT !.pc = "returned", !.entry = entry, !.tried = TRUE]
                /\ heLog' = <<>>
                /\ UNCHANGED erEmitted
           ELSE /\ circuitBreakers' = checked
                /\ heCall' = [pc |-> "attempting", applicable |-> applicable, index |-> 1,
                              attempt |-> 1, result |-> FALSE, entry |-> entry, tried |-> TRUE]
                /\ heLog' = Attempted(<<>>, applicable[1], 1)
                /\ UNCHANGED erEmitted
    /\ UNCHANGED <<erConfig, now, recoveryHistory, calls, callsStarted, activeOperations>>
    /\ UNCHANGED heStrategies
    /\ UNCHANGED heFrame

\* the attempt in flight settles, and executeStrategy / handleError run on
\* to the next call of execute() (after the delay between attempts) or to
\* the return
AttemptSettles(outcome) ==
    /\ heCall.pc = "attempting"
    /\ LET s == heCall.applicable[heCall.index]
           log == Settle(heLog, outcome)
       IN  /\ outcome \in Outcomes(s)
           /\ recoveryHistory' = IF outcome = "throws"
                                 THEN addFailedToHistory(recoveryHistory)
                                 ELSE addToHistory(recoveryHistory)
           /\ IF outcome = "true"
              THEN /\ circuitBreakers' =
                          [circuitBreakers EXCEPT ![HEKey] = resetCircuitBreaker(@)]
                   /\ heCall' = [heCall EXCEPT !.pc = "returned", !.result = TRUE]
                   /\ heLog' = log
              ELSE IF heCall.attempt < s.maxAttempts
              THEN /\ heCall' = [heCall EXCEPT !.attempt = @ + 1]
                   /\ heLog' = Attempted(log, s, heCall.attempt + 1)
                   /\ UNCHANGED circuitBreakers
              ELSE IF heCall.index < Len(heCall.applicable)
              THEN /\ heCall' = [heCall EXCEPT !.index = @ + 1, !.attempt = 1]
                   /\ heLog' = Attempted(log, heCall.applicable[heCall.index + 1], 1)
                   /\ UNCHANGED circuitBreakers
              ELSE /\ circuitBreakers' =
                          [circuitBreakers EXCEPT
                              ![HEKey] = recordCircuitBreakerFailure(@, now, erConfig)]
                   /\ heCall' = [heCall EXCEPT !.pc = "returned", !.result = FALSE]
                   /\ heLog' = log
    /\ UNCHANGED <<erConfig, now, erEmitted, calls, callsStarted, activeOperations>>
    /\ UNCHANGED <<heStrategies, heCalls>>
    /\ UNCHANGED heFrame

HENext ==
    \/ \E s \in AddedStrategies : AddStrategy(s)
    \/ \E matches \in ErrorKinds : HandleError(matches)
    \/ \E outcome \in {"true", "false", "throws"} : AttemptSettles(outcome)

(***************************************************************************)
(* Workflow orchestration.  Step ids are opaque strings that the code only *)
(* compares for equality, so the step at position i of the list is given   *)
(* the id i: every list order of every dependency relation is then some    *)
(* sequence of dependency sets.                                            *)
(***************************************************************************)
StepIds == 1 .. MaxSteps
DepSets == {d \in SUBSET StepIds : Cardinality(d) <= MaxDeps}
StepLists == UNION {[1 .. n -> DepSets] : n \in 0 .. MaxSteps}
FailureStrategies == {"stop", "continue", "retry"}

NoChain == [steps |-> <<>>, failureStrategy |-> "none", maxConcurrency |-> 0]
NoExec ==
    [pc |-> "idle", stored |-> FALSE, batches |-> <<>>, batchIndex |-> 0,
     stepResults |-> [s \in StepIds |-> "none"], status |-> "none"]

\* no get_execution_status call was made yet
NoReply == [found |-> FALSE, status |-> "none", stepStatuses |-> [s \in StepIds |-> "none"]]

WFStart ==
    /\ workflowChains = NoChain
    /\ wfExec = NoExec
    /\ stepState = [s \in StepIds |-> "pending"]
    /\ submitted = {}
    /\ missingFiles = {}
    /\ wfResponse = "none"
    /\ wfReads = 0
    /\ wfStatusReply = NoReply

\* validateWorkflowChain (the name is taken to be non-empty)
validateWorkflowChain(steps) ==
    /\ Len(steps) > 0
    /\ \A i \in 1 .. Len(steps) : \A dep \in steps[i] : dep \in 1 .. Len(steps)

RemoveAt(seq, i) == SubSeq(seq, 1, i - 1) \o SubSeq(seq, i + 1, Len(seq))

\* `!step.dependencies || step.dependencies.every(dep => completed.has(dep))`
canExecute(deps, completed) == deps \subseteq completed

\* resolveDependencies, the inner for loop: i runs from the end of `remaining`
\* down to its start, and a step put in the batch is added to `completed`
\* at once
RECURSIVE ScanRemaining(_, _, _, _, _)
ScanRemaining(steps, remaining, completed, batch, i) ==
    IF i = 0
    THEN [remaining |-> remaining, completed |-> completed, batch |-> batch]
    ELSE LET step == remaining[i] IN
         IF canExecute(steps[step], completed)
         THEN ScanRemaining(steps, RemoveAt(remaining, i), completed \cup {step},
                            Append(batch, step), i - 1)
         ELSE ScanRemaining(steps, remaining, completed, batch, i - 1)

\* resolveDependencies, the while loop; error: the circular-dependency throw
RECURSIVE ResolveLoop(_, _, _, _)
ResolveLoop(steps, remaining, completed, resolved) ==
    IF Len(remaining) = 0
    THEN [error |-> FALSE, batches |-> resolved]
    ELSE LET pass == ScanRemaining(steps, remaining, completed, <<>>, Len(remaining)) IN
         IF Len(pass.batch) = 0
         THEN [error |-> TRUE, batches |-> resolved]
         ELSE ResolveLoop(steps, pass.remaining, pass.completed, Append(resolved, pass.batch))

\* the steps that cannot be resolved are dropped without an error
resolveDependenciesSilently(steps) ==
    [error |-> FALSE,
     batches |-> ResolveLoop(steps, [i \in 1 .. Len(steps) |-> i], {}, <<>>).batches]

resolveDependencies(steps) ==
    ResolveLoop(steps, [i \in 1 .. Len(steps) |-> i], {}, <<>>)

Range(seq) == {seq[i] : i \in 1 .. Len(seq)}

\* create_workflow_chain
CreateWorkflowChain(steps, strategy, maxConcurrency) ==
    /\ workflowChains = NoChain
    /\ IF validateWorkflowChain(steps)
       THEN /\ workflowChains' = [steps |-> steps, failureStrategy |-> strategy,
                                  maxConcurrency |-> maxConcurrency]
            /\ wfResponse' = "created"
       ELSE /\ wfResponse' = "createError"
            /\ UNCHANGED workflowChains
    /\ UNCHANGED <<wfExec, stepState, submitted, missingFiles>>
    /\ UNCHANGED wfFrame

\* `batch.map(step => executeWorkflowStep(...))`: every step of the batch is
\* started
StartBatch(state, batch) ==
    [s \in StepIds |-> IF s \in Range(batch) THEN "running" ELSE state[s]]

\* execute_workflow_chain up to its first await (one run of the chain is
\* followed, after any number of dry runs)
ExecuteWorkflowChain(dryRun) ==
    /\ workflowChains # NoChain
    /\ wfExec.pc = "idle"
    /\ wfResponse \in {"created", "plan"}
    /\ LET r == resolveDependencies(workflowChains.steps) IN
       IF r.error
       THEN /\ wfResponse' = "execError"
            /\ UNCHANGED <<wfExec, stepState>>
       ELSE IF dryRun
       THEN /\ wfResponse' = "plan"
            /\ UNCHANGED <<wfExec, stepState>>
       ELSE IF Len(r.batches) = 0
       THEN \* no batch: the for loop is skipped
            /\ wfExec' = [NoExec EXCEPT !.pc = "done", !.stored = TRUE, !.status = "completed"]
            /\ wfResponse' = "results"
            /\ UNCHANGED stepState
       ELSE /\ wfExec' = [NoExec EXCEPT !.pc = "running", !.stored = TRUE, !.batches = r.batches,
                                         !.batchIndex = 1, !.status = "running"]
            /\ stepState' = StartBatch(stepState, r.batches[1])
            /\ wfResponse' = "pending"
    /\ UNCHANGED <<workflowChains, submitted, missingFiles>>
    /\ UNCHANGED wfFrame

\* executeWorkflowStep settles: it fulfils when the service accepted the
\* prompt, and rejects when the workflow file is missing or the request failed
StepSettles(s, ok) ==
    /\ wfExec.pc = "running"
    /\ stepState[s] = "running"
    /\ stepState' = [stepState EXCEPT ![s] = IF ok THEN "fulfilled" ELSE "rejected"]
    /\ submitted' = IF ok THEN submitted \cup {s} ELSE submitted
    /\ UNCHANGED <<workflowChains, wfExec, missingFiles, wfResponse>>
    /\ UNCHANGED wfFrame

\* executeWorkflowStep finds no workflow file (`fs.pathExists` resolved
\* false): it throws 'Workflow file not found' without a request
StepFindsNoFile(s) ==
    /\ wfExec.pc = "running"
    /\ stepState[s] = "running"
    /\ stepState' = [stepState EXCEPT ![s] = "rejected"]
    /\ missingFiles' = missingFiles \cup {s}
    /\ UNCHANGED <<workflowChains, wfExec, submitted, wfResponse>>
    /\ UNCHANGED wfFrame

Settled(state) == state \in {"fulfilled", "rejected"}

\* the batch is processed as soon as one of its steps has settled
OneSettled(batch, state) == \E s \in Range(batch) : Settled(state[s])

\* `await Promise.allSettled(batchPromises)` resumes
AllSettled(batch, state) == \A s \in Range(batch) : Settled(state[s])

\* the failure strategy is not looked at
NeverAbort(status, strategy) == FALSE

\* line 397: `context.status === 'failed' && chain.failureStrategy === 'stop'`
AbortBatches(status, strategy) == status = "failed" /\ strategy = "stop"

\* the loop over batchResults, from result i on, with its `break`
RECURSIVE ProcessResults(_, _, _, _, _, _)
ProcessResults(batch, state, strategy, results, status, i) ==
    IF i > Len(batch)
    THEN [stepResults |-> results, status |-> status]
    ELSE LET step == batch[i] IN
         IF state[step] = "fulfilled"
         THEN ProcessResults(batch, state, strategy, [results EXCEPT ![step] = "promptId"],
                             status, i + 1)
         ELSE IF state[step] = "rejected"
         THEN IF strategy = "stop"
              THEN [stepResults |-> [results EXCEPT ![step] = "error"], status |-> "failed"]
              ELSE ProcessResults(batch, state, strategy, [results EXCEPT ![step] = "error"],
                                  status, i + 1)
         ELSE ProcessResults(batch, state, strategy, results, status, i + 1)

\* the status is left as the loop left it
FinalStatusKept(status) == status

\* line 401: `context.status === 'running' ? 'completed' : context.status`
FinalStatus(status) == IF status = "running" THEN "completed" ELSE status

\* execute_workflow_chain from the end of one `await Promise.allSettled` to
\* the next await or to its return
BatchSettled ==
    /\ wfExec.pc = "running"
    /\ LET batch == wfExec.batches[wfExec.batchIndex]
           strategy == workflowChains.failureStrategy
           p == ProcessResults(batch, stepState, strategy, wfExec.stepResults, wfExec.status, 1)
       IN /\ AllSettled(batch, stepState)
          /\ IF AbortBatches(p.status, strategy) \/ wfExec.batchIndex = Len(wfExec.batches)
             THEN /\ wfExec' = [wfExec EXCEPT !.pc = "done", !.stepResults = p.stepResults,
                                   !.status = FinalStatus(p.status)]
                  /\ wfResponse' = "results"
                  /\ UNCHANGED stepState
             ELSE /\ wfExec' = [wfExec EXCEPT !.stepResults = p.stepResults, !.status = p.status,
                                   !.batchIndex = @ + 1]
                  /\ stepState' = StartBatch(stepState, wfExec.batches[wfExec.batchIndex + 1])
                  /\ UNCHANGED wfResponse
    /\ UNCHANGED <<workflowChains, submitted, missingFiles>>
    /\ UNCHANGED wfFrame

\* every recorded step is reported as a success
StepStatusAlwaysSuccess(result) ==
    IF result = "none" THEN "none" ELSE "Success"

\* get_execution_status: `result.error ? 'Failed' : 'Success'` for an entry
\* of context.stepResults (a rejection is recorded as {error: reason})
StepStatus(result) ==
    IF result = "none" THEN "none"
    ELSE IF result = "error" THEN "Failed"
    ELSE "Success"

\* get_execution_status(executionId), for the id of the run followed:
\* activeExecutions.get(executionId) and the report
getExecutionStatus(exec) ==
    IF ~exec.stored
    THEN NoReply
    ELSE [found |-> TRUE, status |-> exec.status,
          stepStatuses |-> [s \in StepIds |-> StepStatus(exec.stepResults[s])]]

\* a get_execution_status tool call (it has no await)
GetExecutionStatus ==
    /\ wfReads < MaxReads
    /\ wfReads' = wfReads + 1
    /\ wfStatusReply' = getExecutionStatus(wfExec)
    /\ UNCHANGED <<workflowChains, wfExec, stepState, submitted, missingFiles, wfResponse>>
    /\ UNCHANGED wfReadFrame

WFNext ==
    \/ GetExecutionStatus
    \/ /\ workflowChains = NoChain
       /\ \E steps \in StepLists, strategy \in FailureStrategies,
             maxConcurrency \in 1 .. MaxConcurrencyLimit :
             CreateWorkflowChain(steps, strategy, maxConcurrency)
    \/ \E dryRun \in BOOLEAN : ExecuteWorkflowChain(dryRun)
    \/ \E s \in StepIds, ok \in BOOLEAN : StepSettles(s, ok)
    \/ \E s \in StepIds : StepFindsNoFile(s)
    \/ BatchSettled

(***************************************************************************)
(* ConnectionManager.  connect() is one action per outcome of its probe:   *)
(* the state changes after the await only.                                 *)
(***************************************************************************)
\* the values Math.random() * 1000 takes in the model
Jitters == {0, 499, JitterRange - 1}

Min(a, b) == IF a < b THEN a ELSE b

\* the ConnectionManager's state after its constructor
CMStart ==
    /\ connState = [isConnected |-> FALSE, isHealthy |-> FALSE, reconnectAttempts |-> 0,
                    reconnectDelay |-> baseReconnectDelay]
    /\ reconnectTimer = "none"
    /\ healthCheckTimer = FALSE
    /\ abandonedEmitted = 0

\* the delay grows without the cap
NextReconnectDelayUncapped(delay, jitter) == delay * 2 + jitter

\* scheduleReconnect: Math.min(delay * 2 + Math.random() * 1000, maxReconnectDelay)
NextReconnectDelay(delay, jitter) == Min(delay * 2 + jitter, maxReconnectDelay)

\* onConnectionFailure: `reconnectAttempts < maxReconnectAttempts`
AttemptsRemain(attempts) == attempts < maxReconnectAttempts

\* onConnectionSuccess(): also startHealthCheck and resetReconnectDelay
onConnectionSuccess ==
    /\ connState' = [isConnected |-> TRUE, isHealthy |-> TRUE, reconnectAttempts |-> 0,
                     reconnectDelay |-> baseReconnectDelay]
    /\ healthCheckTimer' = TRUE
    /\ abandonedEmitted' = 0
    /\ UNCHANGED reconnectTimer

\* connect() whose probe returned true: onConnectionSuccess
ConnectSucceeds ==
    /\ onConnectionSuccess
    /\ UNCHANGED cmFrame

\* onConnectionFailure(error) and, while attempts remain, scheduleReconnect()
onConnectionFailure(jitter) ==
    /\ LET attempts == connState.reconnectAttempts + 1 IN
       IF AttemptsRemain(attempts)
       THEN /\ connState' = [isConnected |-> FALSE, isHealthy |-> FALSE,
                             reconnectAttempts |-> attempts,
                             reconnectDelay |-> NextReconnectDelay(connState.reconnectDelay, jitter)]
            /\ reconnectTimer' = "pending"
            /\ UNCHANGED abandonedEmitted
       ELSE /\ connState' = [connState EXCEPT !.isConnected = FALSE, !.isHealthy = FALSE,
                                               !.reconnectAttempts = attempts]
            /\ abandonedEmitted' = abandonedEmitted + 1
            /\ UNCHANGED reconnectTimer
    /\ UNCHANGED healthCheckTimer

\* connect() whose probe returned false, threw or timed out:
\* onConnectionFailure and, while attempts remain, scheduleReconnect
ConnectFails(jitter) ==
    /\ connState.reconnectAttempts < maxReconnectAttempts + MaxExtraConnects
    /\ onConnectionFailure(jitter)
    /\ UNCHANGED cmFrame

\* the reconnect one-shot fires: it emits reconnectAttempt, whose only listener
\* (ServerOrchestrator.setupComponentInteractions) logs the attempt number and
\* publishes it to the StateManager; nothing calls connect()
ReconnectTimerFires ==
    /\ reconnectTimer = "pending"
    /\ reconnectTimer' = "fired"
    /\ UNCHANGED <<connState, healthCheckTimer, abandonedEmitted>>
    /\ UNCHANGED cmFrame

\* disconnect(): also stopHealthCheck and stopReconnectTimer
disconnect ==
    /\ connState' = [connState EXCEPT !.isConnected = FALSE, !.isHealthy = FALSE]
    /\ healthCheckTimer' = FALSE
    /\ reconnectTimer' = "none"
    /\ UNCHANGED abandonedEmitted

\* a caller's disconnect()
Disconnect ==
    /\ disconnect
    /\ UNCHANGED cmFrame

\* one tick of the health-probe interval whose probe returned isHealthy
healthProbe(isHealthy) ==
    /\ healthCheckTimer
    /\ IF isHealthy # connState.isHealthy
       THEN IF ~isHealthy /\ connState.isConnected
            THEN \* handleUnhealthyConnection: disconnect()
                 /\ connState' = [connState EXCEPT !.isConnected = FALSE, !.isHealthy = FALSE]
                 /\ healthCheckTimer' = FALSE
                 /\ reconnectTimer' = "none"
            ELSE /\ connState' = [connState EXCEPT !.isHealthy = isHealthy]
                 /\ UNCHANGED <<healthCheckTimer, reconnectTimer>>
       ELSE UNCHANGED <<connState, healthCheckTimer, reconnectTimer>>
    /\ UNCHANGED abandonedEmitted

\* the health-probe interval of a ConnectionManager on its own
HealthProbe(isHealthy) ==
    /\ healthProbe(isHealthy)
    /\ UNCHANGED cmFrame

\* resetReconnectAttempts()
resetReconnectAttempts ==
    /\ connState' = [connState EXCEPT !.reconnectAttempts = 0,
                                       !.reconnectDelay = baseReconnectDelay]
    /\ abandonedEmitted' = 0
    /\ UNCHANGED <<reconnectTimer, healthCheckTimer>>

\* a caller's resetReconnectAttempts()
ResetReconnectAttempts ==
    /\ resetReconnectAttempts
    /\ UNCHANGED cmFrame

CMNext ==
    \/ ConnectSucceeds
    \/ \E jitter \in Jitters : ConnectFails(jitter)
    \/ ReconnectTimerFires
    \/ Disconnect
    \/ \E isHealthy \in BOOLEAN : HealthProbe(isHealthy)
    \/ ResetReconnectAttempts

(***************************************************************************)
(* ProcessManager, for one process name.  A ProcessInfo is an object: the  *)
(* exit handler of a child and the callback of a restart timer keep the    *)
(* object they captured, while startProcess puts a new object in the       *)
(* `processes` map.  pmInfos holds the objects still referenced, pmCurrent *)
(* the one in the map.  The configs of the model set no healthCheckUrl.    *)
(***************************************************************************)
InfoIds == 1 .. (1 + MaxChildren + MaxTimers)

FreeInfo == [status |-> "free", restartCount |-> 0]

\* the ProcessConfig objects of the model; maxRestarts 0 stands for a
\* config that leaves it out
ProcessConfigs == [autoRestart : BOOLEAN, maxRestarts : 0 .. MaxConfiguredRestarts]

\* `config.maxRestarts || 5`
MaxRestartsOf(cfg) == IF cfg.maxRestarts = 0 THEN defaultMaxRestarts ELSE cfg.maxRestarts

NoOps == [stopPolling |-> 0, restartPolling |-> 0, restartSleeping |-> 0, failureWaiting |-> 0]

\* the ProcessManager after its constructor, with the config later passed
\* to startProcess
PMStart(cfg, orchestrated) ==
    /\ pmConfig = cfg
    /\ orchAutoRestart = orchestrated
    /\ pmInfos = [i \in InfoIds |-> FreeInfo]
    /\ pmCurrent = 0
    /\ pmChildren = {}
    /\ pmTimers = <<>>
    /\ pmOps = NoOps
    /\ pmStopReturned = FALSE
    /\ pmAutoSpawns = 0

\* the objects a child's handlers or a timer's callback still hold
Captured(children, timers) ==
    {c.info : c \in children} \cup {timers[i].info : i \in 1 .. Len(timers)}

\* objects nothing refers to any more are dropped
Collect(infos, current, children, timers) ==
    [i \in InfoIds |->
        IF i = current \/ i \in Captured(children, timers) THEN infos[i] ELSE FreeInfo]

\* childProcesses.delete(name) / the entry is overwritten
Deregister(children) == {[c EXCEPT !.registered = FALSE] : c \in children}

\* restartTimers.delete(name) / the entry is overwritten: the timer stays set
Forget(timers) == [i \in 1 .. Len(timers) |-> [timers[i] EXCEPT !.registered = FALSE]]

\* clearTimeout(restartTimers.get(name))
ClearRegistered(timers) == SelectSeq(timers, LAMBDA t : ~t.registered)

HasChild(children) == \E c \in children : c.registered

\* startProcess(config) on the given state; hasPid: spawn returned a pid.
\* It returns the new infos, map entry and children and whether it spawned.
startProcess(infos, current, children, timers, hasPid) ==
    IF current # 0 /\ infos[current].status = "running"
    THEN [infos |-> infos, current |-> current, children |-> children, spawned |-> FALSE]
    ELSE LET count == IF current # 0 THEN infos[current].restartCount ELSE 0
             id == CHOOSE i \in InfoIds :
                        /\ i \notin Captured(children, timers)
                        /\ \A j \in InfoIds : j < i => j \in Captured(children, timers)
         IN  IF hasPid
             THEN [infos |-> [infos EXCEPT ![id] = [status |-> "running", restartCount |-> count]],
                   current |-> id,
                   children |-> Deregister(children)
                                    \cup {[info |-> id, registered |-> TRUE, killed |-> FALSE]},
                   spawned |-> TRUE]
             ELSE [infos |-> [infos EXCEPT ![id] = [status |-> "error", restartCount |-> count]],
                   current |-> id, children |-> children, spawned |-> FALSE]

\* the exit handler's test:
\* `config.autoRestart && processInfo.restartCount < (config.maxRestarts || 5)`
ShouldRestart(cfg, info) == cfg.autoRestart /\ info.restartCount < MaxRestartsOf(cfg)

\* scheduleRestart(name): a one-shot holding the object now in the map
scheduleRestart(timers, current) ==
    Append(Forget(timers), [info |-> current, registered |-> TRUE])

\* a caller's startProcess(config)
StartProcess(hasPid) ==
    /\ Cardinality(pmChildren) < MaxChildren
    /\ LET r == startProcess(pmInfos, pmCurrent, pmChildren, pmTimers, hasPid) IN
       /\ pmInfos' = Collect(r.infos, r.current, r.children, pmTimers)
       /\ pmCurrent' = r.current
       /\ pmChildren' = r.children
    /\ pmStopReturned' = FALSE
    /\ UNCHANGED <<pmConfig, orchAutoRestart, pmTimers, pmOps, pmAutoSpawns>>
    /\ UNCHANGED pmFrame

\* the 'exit' event of a child: its handler, and the orchestrator's
\* processExited listener, which starts handleProcessFailure
ChildExits(c) ==
    /\ c \in pmChildren
    /\ LET restart == ShouldRestart(pmConfig, pmInfos[c.info])
           children == Deregister(pmChildren \ {c})
           timers == IF restart THEN scheduleRestart(pmTimers, pmCurrent) ELSE pmTimers
       IN  /\ restart => Len(pmTimers) < MaxTimers
           /\ orchAutoRestart => pmOps.failureWaiting < MaxOps
           /\ pmInfos' = Collect([pmInfos EXCEPT ![c.info].status = "stopped"],
                                 pmCurrent, children, timers)
           /\ pmChildren' = children
           /\ pmTimers' = timers
           /\ pmOps' = IF orchAutoRestart
                       THEN [pmOps EXCEPT !.failureWaiting = @ + 1]
                       ELSE pmOps
    /\ UNCHANGED <<pmConfig, orchAutoRestart, pmCurrent, pmStopReturned, pmAutoSpawns>>
    /\ UNCHANGED pmFrame

\* the callback of the oldest restart timer (all have the same delay):
\* restartCount++ on the object it holds, startProcess, restartTimers.delete
RestartTimerFires(hasPid) ==
    /\ Len(pmTimers) > 0
    /\ pmAutoSpawns < MaxAutoSpawns
    /\ Cardinality(pmChildren) < MaxChildren
    /\ LET t == Head(pmTimers)
           rest == Tail(pmTimers)
           counted == [pmInfos EXCEPT ![t.info].restartCount = @ + 1]
           r == startProcess(counted, pmCurrent, pmChildren, pmTimers, hasPid)
       IN  /\ pmInfos' = Collect(r.infos, r.current, r.children, Forget(rest))
           /\ pmCurrent' = r.current
           /\ pmChildren' = r.children
           /\ pmTimers' = Forget(rest)
           /\ pmAutoSpawns' = IF r.spawned THEN pmAutoSpawns + 1 ELSE pmAutoSpawns
    /\ UNCHANGED <<pmConfig, orchAutoRestart, pmOps, pmStopReturned>>
    /\ UNCHANGED pmFrame

\* no restartProcess is in flight
NoRestartInFlight(ops) == ops.restartPolling + ops.restartSleeping + ops.failureWaiting = 0

\* stopProcess(name, force) up to its wait; both signals leave the child
\* exiting.  kind: stopPolling for a caller's stopProcess, restartPolling
\* for the stopProcess of restartProcess; ops: the operations in flight.
stopProcess(kind, ops) ==
    IF pmCurrent = 0 \/ ~HasChild(pmChildren)
    THEN \* not found or not running: it returns true at once
         /\ pmOps' = IF kind = "restartPolling"
                     THEN [ops EXCEPT !.restartSleeping = @ + 1]
                     ELSE ops
         /\ pmStopReturned' = (kind = "stopPolling" /\ NoRestartInFlight(ops))
         /\ UNCHANGED <<pmInfos, pmChildren, pmTimers>>
    ELSE /\ pmInfos' = [pmInfos EXCEPT ![pmCurrent].status = "stopping"]
         /\ pmTimers' = ClearRegistered(pmTimers)
         /\ pmChildren' = {IF c.registered THEN [c EXCEPT !.killed = TRUE] ELSE c : c \in pmChildren}
         /\ pmOps' = [ops EXCEPT ![kind] = @ + 1]
         /\ pmStopReturned' = FALSE

\* a caller's stopProcess(name)
StopProcess ==
    /\ pmOps.stopPolling < MaxOps
    /\ stopProcess("stopPolling", pmOps)
    /\ UNCHANGED <<pmConfig, orchAutoRestart, pmCurrent, pmAutoSpawns>>
    /\ UNCHANGED pmFrame

\* the poll of a waiting stopProcess finds the child registry empty: it
\* emits processStopped and returns true
StopProcessReturns ==
    /\ pmOps.stopPolling > 0
    /\ ~HasChild(pmChildren)
    /\ pmOps' = [pmOps EXCEPT !.stopPolling = @ - 1]
    /\ pmStopReturned' = NoRestartInFlight(pmOps)
    /\ UNCHANGED <<pmConfig, orchAutoRestart, pmInfos, pmCurrent, pmChildren, pmTimers,
                   pmAutoSpawns>>
    /\ UNCHANGED pmFrame

\* handleProcessFailure after its 2 s wait: restartProcess(name) up to the
\* wait of its stopProcess
ProcessFailureHandled ==
    /\ pmOps.failureWaiting > 0
    /\ pmOps.restartPolling + pmOps.restartSleeping < MaxOps
    /\ stopProcess("restartPolling", [pmOps EXCEPT !.failureWaiting = @ - 1])
    /\ UNCHANGED <<pmConfig, orchAutoRestart, pmCurrent, pmAutoSpawns>>
    /\ UNCHANGED pmFrame

\* the stopProcess of a restartProcess returns: restartProcess waits 1 s
RestartStopReturns ==
    /\ pmOps.restartPolling > 0
    /\ ~HasChild(pmChildren)
    /\ pmOps' = [pmOps EXCEPT !.restartPolling = @ - 1, !.restartSleeping = @ + 1]
    /\ UNCHANGED <<pmConfig, orchAutoRestart, pmInfos, pmCurrent, pmChildren, pmTimers,
                   pmStopReturned, pmAutoSpawns>>
    /\ UNCHANGED pmFrame

\* restartProcess after its 1 s wait: startProcess(config)
RestartStarts(hasPid) ==
    /\ pmOps.restartSleeping > 0
    /\ pmAutoSpawns < MaxAutoSpawns
    /\ Cardinality(pmChildren) < MaxChildren
    /\ LET r == startProcess(pmInfos, pmCurrent, pmChildren, pmTimers, hasPid) IN
       /\ pmInfos' = Collect(r.infos, r.current, r.children, pmTimers)
       /\ pmCurrent' = r.current
       /\ pmChildren' = r.children
       /\ pmAutoSpawns' = IF r.spawned THEN pmAutoSpawns + 1 ELSE pmAutoSpawns
    /\ pmOps' = [pmOps EXCEPT !.restartSleeping = @ - 1]
    /\ pmStopReturned' = FALSE
    /\ UNCHANGED <<pmConfig, orchAutoRestart, pmTimers>>
    /\ UNCHANGED pmFrame

PMNext ==
    \/ \E hasPid \in BOOLEAN : StartProcess(hasPid)
    \/ \E c \in pmChildren : ChildExits(c)
    \/ \E hasPid \in BOOLEAN : RestartTimerFires(hasPid)
    \/ StopProcess
    \/ StopProcessReturns
    \/ ProcessFailureHandled
    \/ RestartStopReturns
    \/ \E hasPid \in BOOLEAN : RestartStarts(hasPid)

(***************************************************************************)
(* ProcessManager.killAllComfyUIProcesses: one call, followed from await   *)
(* to await.  kaEnv is what the host answers: whether a managed or an      *)
(* OS-level process matches, whether a listed port is in use, and the exit *)
(* status a kill command gives when nothing matched (taskkill with /FI and *)
(* wmic exit with 0 then; a missing command exits with an error).          *)
(***************************************************************************)
CleanupEnvs == [managed : BOOLEAN, osProcess : BOOLEAN, portInUse : BOOLEAN,
                quietExit : BOOLEAN]

NoResult == [processesKilled |-> 0, portsCleared |-> 0, resourcesFreed |-> 0,
             errors |-> 0, success |-> FALSE]

\* before the call
KAStart(env) ==
    /\ kaEnv = env
    /\ kaPc = "idle"
    /\ kaIndex = 0
    /\ kaResult = NoResult
    /\ kaOutcome = "none"

\* whether execAsync(kill command) can resolve (exit status 0) and reject
KillCommandResults(env) ==
    IF env.osProcess THEN BOOLEAN   \* it kills, or it is denied
    ELSE {env.quietExit}

\* the outer catch: the error is pushed onto result.errors, success stays false
OuterCatch ==
    /\ kaResult' = [kaResult EXCEPT !.errors = @ + 1]
    /\ kaPc' = "done"
    /\ kaOutcome' = "returned"
    /\ UNCHANGED <<kaEnv, kaIndex>>

\* killAllComfyUIProcesses() up to its first await: the loop over the
\* managed processes reaches stopProcess(name, true) if a name matches
killAllComfyUIProcesses ==
    /\ kaPc = "idle"
    /\ kaResult' = NoResult
    /\ kaPc' = IF kaEnv.managed THEN "stopping" ELSE "killing"
    /\ kaIndex' = 1
    /\ UNCHANGED <<kaEnv, kaOutcome>>

\* a caller's killAllComfyUIProcesses()
KillAllComfyUIProcesses ==
    /\ killAllComfyUIProcesses
    /\ UNCHANGED kaFrame

\* the stopProcess of the managed process settles: it resolves (true or
\* false), or it rejects when a listener of its processError throws
ManagedStopSettles(rejects) ==
    /\ kaPc = "stopping"
    /\ IF rejects
       THEN OuterCatch
       ELSE /\ kaResult' = [kaResult EXCEPT !.processesKilled = @ + 1]
            /\ kaPc' = "killing"
            /\ UNCHANGED <<kaEnv, kaIndex, kaOutcome>>
    /\ UNCHANGED kaFrame

\* one kill command settles; its error is ignored
KillCommandSettles(resolves) ==
    /\ kaPc = "killing"
    /\ resolves \in KillCommandResults(kaEnv)
    /\ kaResult' = IF resolves
                   THEN [kaResult EXCEPT !.processesKilled = @ + 1]
                   ELSE kaResult
    /\ IF kaIndex < NumKillCommands
       THEN /\ kaIndex' = kaIndex + 1
            /\ UNCHANGED kaPc
       ELSE /\ kaIndex' = 1
            /\ kaPc' = "ports"
    /\ UNCHANGED <<kaEnv, kaOutcome>>
    /\ UNCHANGED kaFrame

\* one port is scanned: netstat | findstr rejects when no line matches,
\* else `lines` lines carry a pid and `killed` of them are killed before a
\* taskkill rejects (killed = lines: none rejects)
PortScanned(lines, killed) ==
    /\ kaPc = "ports"
    /\ lines > 0 => kaEnv.portInUse
    /\ killed <= lines
    /\ kaResult' = [kaResult EXCEPT !.portsCleared = @ + killed]
    /\ IF kaIndex < NumPorts
       THEN /\ kaIndex' = kaIndex + 1
            /\ UNCHANGED kaPc
       ELSE /\ kaIndex' = 0
            /\ kaPc' = "netsh"
    /\ UNCHANGED <<kaEnv, kaOutcome>>
    /\ UNCHANGED kaFrame

\* netsh winsock reset settles; then result.success = true and the return
NetworkResetSettles(resolves) ==
    /\ kaPc = "netsh"
    /\ kaResult' = IF resolves
                   THEN [kaResult EXCEPT !.resourcesFreed = @ + 1, !.success = TRUE]
                   ELSE [kaResult EXCEPT !.errors = @ + 1, !.success = TRUE]
    /\ kaPc' = "done"
    /\ kaOutcome' = "returned"
    /\ UNCHANGED <<kaEnv, kaIndex>>
    /\ UNCHANGED kaFrame

KANext ==
    \/ KillAllComfyUIProcesses
    \/ \E rejects \in BOOLEAN : ManagedStopSettles(rejects)
    \/ \E resolves \in BOOLEAN : KillCommandSettles(resolves)
    \/ \E lines \in 0 .. MaxLines, killed \in 0 .. MaxLines : PortScanned(lines, killed)
    \/ \E resolves \in BOOLEAN : NetworkResetSettles(resolves)

(***************************************************************************)
(* StateManager.  The ServerState of the model keeps sessionId, startTime, *)
(* lastActivity, errorState.criticalErrors and one configuration value.    *)
(* A time-valued field is a Date object or, after a trip through JSON, the *)
(* ISO string of the same instant; `at` counts the mutations made.         *)
(* The file system of the model never fails.                               *)
(***************************************************************************)
\* createInitialState() for the session-th generated session id
createInitialState(session, clock) ==
    [sessionId |-> session,
     startTime |-> [kind |-> "Date", at |-> clock],
     lastActivity |-> [kind |-> "Date", at |-> clock],
     criticalErrors |-> 0,
     configuration |-> 0]

\* JSON.stringify of a Date gives its ISO string, which JSON.parse leaves a string
DateToJSON(date) == [date EXCEPT !.kind = "string"]

\* JSON.parse(JSON.stringify(state))
JsonClone(state) ==
    [state EXCEPT !.startTime = DateToJSON(@), !.lastActivity = DateToJSON(@)]

\* the StateManagerConfig objects of the model (maxSnapshots is MaxSnapshots)
SMConfigs == [persistState : BOOLEAN, autoSave : BOOLEAN]

\* the StateManager after its constructor, no state file existing:
\* the snapshot interval runs, and the auto-save interval if autoSave is set
SMStart(cfg) ==
    /\ smConfig = cfg
    /\ smState = createInitialState(1, 0)
    /\ smSessions = 1
    /\ smClock = 0
    /\ smSnapshots = <<>>
    /\ smTaken = <<>>
    /\ smSnapshotTimer = TRUE
    /\ smAutoSaveTimer = IF cfg.autoSave THEN "interval" ELSE "none"
    /\ smSaves = <<>>
    /\ smFile = "none"
    /\ smDestroyed = FALSE

\* triggerAutoSave(): the debounce replaces whatever autoSaveTimer holds
triggerAutoSave ==
    smAutoSaveTimer' = IF smConfig.autoSave /\ smConfig.persistState
                       THEN "timeout"
                       ELSE smAutoSaveTimer

\* saveState() is called: it awaits ensureDir
saveState(saves) == Append(saves, [phase |-> "ensureDir", data |-> "none"])

\* updateErrorState({criticalErrors: n})
UpdateErrorState(n) ==
    /\ ~smDestroyed
    /\ smClock < MaxMutations
    /\ smClock' = smClock + 1
    /\ smState' = [smState EXCEPT !.criticalErrors = n,
                                  !.lastActivity = [kind |-> "Date", at |-> smClock + 1]]
    /\ triggerAutoSave
    /\ UNCHANGED <<smConfig, smSessions, smSnapshots, smTaken, smSnapshotTimer, smSaves, smFile,
                   smDestroyed>>
    /\ UNCHANGED smFrame

\* updateConfiguration(updates)
UpdateConfiguration(v) ==
    /\ ~smDestroyed
    /\ smClock < MaxMutations
    /\ smClock' = smClock + 1
    /\ smState' = [smState EXCEPT !.configuration = v,
                                  !.lastActivity = [kind |-> "Date", at |-> smClock + 1]]
    /\ triggerAutoSave
    /\ UNCHANGED <<smConfig, smSessions, smSnapshots, smTaken, smSnapshotTimer, smSaves, smFile,
                   smDestroyed>>
    /\ UNCHANGED smFrame

\* the state is initialized afresh and the configuration not kept
resetStateDiscarding(state, session, clock, preserveConfiguration) ==
    createInitialState(session, clock)

\* resetState: createInitialState(), then the old configuration if preserved
resetState(state, session, clock, preserveConfiguration) ==
    [createInitialState(session, clock) EXCEPT
        !.configuration = IF preserveConfiguration THEN state.configuration ELSE @]

\* resetState(preserveConfiguration)
ResetState(preserveConfiguration) ==
    /\ ~smDestroyed
    /\ smClock < MaxMutations
    /\ smClock' = smClock + 1
    /\ smSessions' = smSessions + 1
    /\ smState' = resetState(smState, smSessions + 1, smClock + 1, preserveConfiguration)
    /\ triggerAutoSave
    /\ UNCHANGED <<smConfig, smSnapshots, smTaken, smSnapshotTimer, smSaves, smFile, smDestroyed>>
    /\ UNCHANGED smFrame

\* snapshots.push(snapshot) and the shift that limits the history
PushSnapshot(snapshots, s) ==
    LET pushed == Append(snapshots, s) IN
    IF Len(pushed) > MaxSnapshots THEN Tail(pushed) ELSE pushed

\* createSnapshot(), by a caller or by the snapshot interval; smTaken
\* remembers the state as it was at that moment
CreateSnapshot ==
    /\ ~smDestroyed
    /\ smSnapshots' = PushSnapshot(smSnapshots, JsonClone(smState))
    /\ smTaken' = PushSnapshot(smTaken, smState)
    /\ UNCHANGED <<smConfig, smState, smSessions, smClock, smSnapshotTimer, smAutoSaveTimer,
                   smSaves, smFile, smDestroyed>>
    /\ UNCHANGED smFrame

\* restoreFromSnapshot: `this.currentState = JSON.parse(JSON.stringify(snapshot.state))`
Restore(snapshot) == JsonClone(snapshot)

\* restoreFromSnapshot(index) with a valid index (an invalid one returns false)
RestoreFromSnapshot(index) ==
    /\ ~smDestroyed
    /\ index \in 1 .. Len(smSnapshots)
    /\ smState' = Restore(smSnapshots[index])
    /\ UNCHANGED <<smConfig, smSessions, smClock, smSnapshots, smTaken, smSnapshotTimer,
                   smAutoSaveTimer, smSaves, smFile, smDestroyed>>
    /\ UNCHANGED smFrame

\* the timer held by autoSaveTimer fires: the 10 s interval (it stays set)
\* or the 2 s debounce; both call saveState()
AutoSaveTimerFires ==
    /\ smAutoSaveTimer \in {"interval", "timeout"}
    /\ smAutoSaveTimer = "interval" => smConfig.persistState
    /\ Len(smSaves) < MaxSaves
    /\ smSaves' = saveState(smSaves)
    /\ smAutoSaveTimer' = IF smAutoSaveTimer = "timeout" THEN "fired" ELSE smAutoSaveTimer
    /\ UNCHANGED <<smConfig, smState, smSessions, smClock, smSnapshots, smTaken, smSnapshotTimer,
                   smFile, smDestroyed>>
    /\ UNCHANGED smFrame

\* ensureDir of a save resolves: stateData is built from the current state
\* and writeJson serialises it
SaveSerialises(i) ==
    /\ i \in 1 .. Len(smSaves)
    /\ smSaves[i].phase = "ensureDir"
    /\ smSaves' = [smSaves EXCEPT ![i] = [phase |-> "writing", data |-> JsonClone(smState)]]
    /\ UNCHANGED <<smConfig, smState, smSessions, smClock, smSnapshots, smTaken, smSnapshotTimer,
                   smAutoSaveTimer, smFile, smDestroyed>>
    /\ UNCHANGED smFrame

\* the write of a save completes; writes in flight on the one path are not
\* ordered by the program
SaveWritten(i) ==
    /\ i \in 1 .. Len(smSaves)
    /\ smSaves[i].phase = "writing"
    /\ smFile' = smSaves[i].data
    /\ smSaves' = SubSeq(smSaves, 1, i - 1) \o SubSeq(smSaves, i + 1, Len(smSaves))
    /\ UNCHANGED <<smConfig, smState, smSessions, smClock, smSnapshots, smTaken, smSnapshotTimer,
                   smAutoSaveTimer, smDestroyed>>
    /\ UNCHANGED smFrame

\* destroy(): `if (this.config.persistState) { this.saveState(); }`
SaveOnDestroy(saves) ==
    IF smConfig.persistState THEN saveState(saves) ELSE saves

\* destroy(): both timers are cleared, then the save
Destroy ==
    /\ ~smDestroyed
    /\ Len(smSaves) < MaxSaves
    /\ smSnapshotTimer' = FALSE
    /\ smAutoSaveTimer' = "none"
    /\ smSaves' = SaveOnDestroy(smSaves)
    /\ smDestroyed' = TRUE
    /\ UNCHANGED <<smConfig, smState, smSessions, smClock, smSnapshots, smTaken, smFile>>
    /\ UNCHANGED smFrame

SMNext ==
    \/ \E n \in 0 .. MaxCritical : UpdateErrorState(n)
    \/ \E v \in 0 .. 1 : UpdateConfiguration(v)
    \/ \E preserveConfiguration \in BOOLEAN : ResetState(preserveConfiguration)
    \/ CreateSnapshot
    \/ \E index \in 1 .. MaxSnapshots : RestoreFromSnapshot(index)
    \/ AutoSaveTimerFires
    \/ \E i \in 1 .. MaxSaves : SaveSerialises(i)
    \/ \E i \in 1 .. MaxSaves : SaveWritten(i)
    \/ Destroy

(***************************************************************************)
(* StateManager.loadPersistedState, which the constructor starts without   *)
(* awaiting it: followed from await to await.  The state file of the model *)
(* was saved by a process that had taken no snapshot.  Without a state     *)
(* file pathExists answers false and the load changes nothing: that load   *)
(* is left out (ldLoad is "none").                                         *)
(***************************************************************************)
\* the states a state file can hold
PersistedStates ==
    {JsonClone([createInitialState(0, 0) EXCEPT !.criticalErrors = n, !.configuration = v]) :
        n \in 0 .. MaxCritical, v \in 0 .. 1}

\* the constructor's `if (this.config.persistState) { this.loadPersistedState(); }`
\* where fileExists tells whether there is a state file
LDStart(persistState, fileExists) ==
    ldLoad = IF persistState /\ fileExists THEN "pathExists" ELSE "none"

\* the StateManager after its constructor, the state file holding `file`
SMStartWithFile(cfg, file) ==
    /\ smConfig = cfg
    /\ smState = createInitialState(1, 0)
    /\ smSessions = 1
    /\ smClock = 0
    /\ smSnapshots = <<>>
    /\ smTaken = <<>>
    /\ smSnapshotTimer = TRUE
    /\ smAutoSaveTimer = IF cfg.autoSave THEN "interval" ELSE "none"
    /\ smSaves = <<>>
    /\ smFile = file
    /\ smDestroyed = FALSE
    /\ LDStart(cfg.persistState, TRUE)

\* the persisted state with the new session's sessionId and startTime
mergePersistedState(state, persisted) ==
    [persisted EXCEPT !.sessionId = state.sessionId, !.startTime = state.startTime]

\* `await fs.pathExists(this.stateFilePath)` resolves to true
PathExistsSettles ==
    /\ ldLoad = "pathExists"
    /\ ldLoad' = "readJson"
    /\ UNCHANGED smVars
    /\ UNCHANGED ldFrame

\* `await fs.readJson(this.stateFilePath)` resolves: currentState and
\* snapshots are replaced by what the file holds
ReadJsonSettles ==
    /\ ldLoad = "readJson"
    /\ ldLoad' = "loaded"
    /\ smState' = mergePersistedState(smState, smFile)
    /\ smSnapshots' = <<>>
    /\ smTaken' = <<>>
    /\ UNCHANGED <<smConfig, smSessions, smClock, smSnapshotTimer, smAutoSaveTimer, smSaves,
                   smFile, smDestroyed>>
    /\ UNCHANGED ldFrame

LDNext ==
    \/ PathExistsSettles
    \/ ReadJsonSettles
    \/ \E n \in 0 .. MaxCritical : UpdateErrorState(n)
    \/ \E v \in 0 .. 1 : UpdateConfiguration(v)
    \/ CreateSnapshot

(***************************************************************************)
(* HealthMonitor.  A health check is followed from the timer (or from      *)
(* startMonitoring) that begins it to the moment collectHealthMetrics has  *)
(* gathered its four readings; a check begun before stopMonitoring still   *)
(* completes after it.  Sizes are in bytes, times in milliseconds; Null is *)
(* the null of a reading that could not be taken.  The listeners of the    *)
(* monitor's events (the orchestrator's) do not throw.                     *)
(***************************************************************************)
Null == -1

\* checkComfyUIHealth(): responseTime is Date.now() - startTime when the
\* probe answered with an ok status, null when it did not
ComfyUIReadings ==
    {[isRunning |-> FALSE, responseTime |-> Null]}
        \cup {[isRunning |-> TRUE, responseTime |-> t] : t \in {0, 1, 999, 1000}}

\* a self check that can also find the server unresponsive
MCPReadingsUnresponsive ==
    [isResponsive : BOOLEAN, heapUsed : {heapLimit - 1, heapLimit}]

\* checkMCPServerHealth(): isResponsive is always true, memoryUsage is
\* process.memoryUsage()
MCPReadings == {[isResponsive |-> TRUE, heapUsed |-> h] : h \in {heapLimit - 1, heapLimit}}

\* checkSystemHealth(), and getEmptySystemHealth() when it is disabled or fails
SystemReadings ==
    [networkConnectivity : BOOLEAN,
     availableMemory : {Null, memoryHeadroom, memoryHeadroom + 1}]

\* checkProcessHealth(): the number of ComfyUI processes found and whether
\* the scan found port 8188 open
ProcessReadings == [comfyuiProcesses : 0 .. 1, port8188Open : BOOLEAN]

\* Math.round of the quotient num / den of two naturals
Round(num, den) == (2 * num + den) \div (2 * den)

\* JavaScript's truthiness of a number-or-null reading: null and 0 are falsy
Truthy(reading) == reading # Null /\ reading # 0

Points(condition, points) == IF condition THEN points ELSE 0

\* calculateHealthScore(comfyui, mcp, system, process)
calculateHealthScore(comfyui, mcp, system, process) ==
    LET maxScore == 40 + 30 + 20 + 10
        score ==
            Points(comfyui.isRunning, 30)
            + Points(Truthy(comfyui.responseTime) /\ comfyui.responseTime < 1000, 10)
            + Points(mcp.isResponsive, 20)
            + Points(mcp.heapUsed < heapLimit, 10)
            + Points(system.networkConnectivity, 10)
            + Points(Truthy(system.availableMemory)
                        /\ system.availableMemory > memoryHeadroom, 10)
            + Points(process.comfyuiProcesses > 0, 5)
            + Points(process.port8188Open, 5)
    IN  Round(score * 100, maxScore)

\* determineOverallHealth(score)
determineOverallHealth(score, cfg) ==
    IF score >= cfg.healthThreshold THEN "healthy"
    ELSE IF score >= cfg.criticalThreshold THEN "degraded"
    ELSE IF score > 0 THEN "unhealthy"
    ELSE "critical"

\* the HealthMonitorConfig objects of the model: the defaults (which the
\* orchestrator also passes) and two others
HMConfigs ==
    {[healthThreshold |-> healthThreshold, criticalThreshold |-> criticalThreshold],
     [healthThreshold |-> 100, criticalThreshold |-> 5],
     [healthThreshold |-> 50, criticalThreshold |-> 50]}

NoMetrics == [comfyui |-> [isRunning |-> FALSE, responseTime |-> Null],
              mcp |-> [isResponsive |-> FALSE, heapUsed |-> 0],
              system |-> [networkConnectivity |-> FALSE, availableMemory |-> Null],
              process |-> [comfyuiProcesses |-> 0, port8188Open |-> FALSE],
              healthScore |-> Null, overallHealth |-> "none"]

\* the HealthMonitor after its constructor
HMStart(cfg) ==
    /\ hmConfig = cfg
    /\ hmMonitoring = FALSE
    /\ hmPending = 0
    /\ hmLast = NoMetrics
    /\ hmConsecutiveFailures = 0
    /\ hmPrevHealth = "none"
    /\ hmStatusChanged = FALSE

\* startMonitoring(): the initial check begins, the interval is set
startMonitoring ==
    IF hmMonitoring
    THEN UNCHANGED <<hmMonitoring, hmPending>>
    ELSE /\ hmMonitoring' = TRUE
         /\ hmPending' = hmPending + 1

\* stopMonitoring(): the interval is cleared
stopMonitoring == hmMonitoring' = FALSE

\* a caller's startMonitoring()
StartMonitoring ==
    /\ hmPending < MaxPending
    /\ startMonitoring
    /\ UNCHANGED <<hmConfig, hmLast, hmConsecutiveFailures, hmPrevHealth,
           hmStatusChanged>>
    /\ UNCHANGED hmFrame

\* a caller's stopMonitoring()
StopMonitoring ==
    /\ stopMonitoring
    /\ UNCHANGED <<hmConfig, hmPending, hmLast, hmConsecutiveFailures, hmPrevHealth,
           hmStatusChanged>>
    /\ UNCHANGED hmFrame

\* the monitoring interval fires: performHealthCheck() begins
MonitorTimerFires ==
    /\ hmMonitoring
    /\ hmPending < MaxPending
    /\ hmPending' = hmPending + 1
    /\ UNCHANGED <<hmConfig, hmMonitoring, hmLast, hmConsecutiveFailures, hmPrevHealth,
           hmStatusChanged>>
    /\ UNCHANGED hmFrame

\* analyzeHealthStatus: prevHealth = this.lastHealthMetrics?.overallHealth,
\* read after performHealthCheck has assigned the new metrics
prevHealth(last, metrics) == metrics.overallHealth

\* collectHealthMetrics() of a check resolves with the four readings: the
\* metrics become lastHealthMetrics, then analyzeHealthStatus counts them
HealthCheckCompletes(comfyui, mcp, system, process) ==
    /\ hmPending > 0
    /\ LET healthScore == calculateHealthScore(comfyui, mcp, system, process)
           overallHealth == determineOverallHealth(healthScore, hmConfig)
           metrics == [comfyui |-> comfyui, mcp |-> mcp, system |-> system,
                       process |-> process, healthScore |-> healthScore,
                       overallHealth |-> overallHealth]
       IN  /\ overallHealth # "healthy" => hmConsecutiveFailures < MaxFailures
           /\ hmLast' = metrics
           /\ hmPrevHealth' = hmLast.overallHealth
           /\ hmStatusChanged' = (prevHealth(hmLast, metrics) # overallHealth)
           /\ hmConsecutiveFailures' = IF overallHealth = "healthy"
                                       THEN 0
                                       ELSE hmConsecutiveFailures + 1
    /\ hmPending' = hmPending - 1
    /\ UNCHANGED <<hmConfig, hmMonitoring>>
    /\ UNCHANGED hmFrame

HMNext ==
    \/ StartMonitoring
    \/ StopMonitoring
    \/ MonitorTimerFires
    \/ \E comfyui \in ComfyUIReadings, mcp \in MCPReadings, system \in SystemReadings,
          process \in ProcessReadings :
            HealthCheckCompletes(comfyui, mcp, system, process)

(***************************************************************************)
(* ServerOrchestrator.initialize and shutdown, with every component        *)
(* present (the default configuration).  The calls are followed from await *)
(* to await, together with what they do to the ConnectionManager, the      *)
(* HealthMonitor and the StateManager.  No process was started, so the     *)
(* ProcessManager's cleanup finds nothing to stop.  orEnv: a listener of   *)
(* the orchestrator's connectionLost event throws; no other listener does. *)
(* The StateManager's timers and the pending health checks are followed in *)
(* their own sections and do not fire here.                                *)
(***************************************************************************)
TeardownSteps == {"stopMonitoring", "disconnect", "saveState", "connectionManager",
                  "healthMonitor", "processManager", "stateManager", "errorRecovery"}

\* the components destroyed by shutdown(), in the order of the calls
DestroyOrder == <<"connectionManager", "healthMonitor", "processManager", "stateManager",
                  "errorRecovery">>

DestroySteps == {DestroyOrder[i] : i \in 1 .. Len(DestroyOrder)}

\* teardown with the steps of `done` invoked once more
Invoked(teardown, done) ==
    [s \in TeardownSteps |-> IF s \in done THEN teardown[s] + 1 ELSE teardown[s]]

\* the ServerOrchestrator after its constructor
ORStart(env) ==
    /\ orEnv = env
    /\ orInitialized = FALSE
    /\ orShuttingDown = FALSE
    /\ orCalls = [initialize |-> 0, shutdown |-> 0]
    /\ orInits = 0
    /\ orConnects = 0
    /\ orShutdown = "idle"
    /\ orTeardown = [s \in TeardownSteps |-> 0]
    /\ orConnectsAtDestroy = 0

\* StateManager.updateConnectionState(updates), called by the listeners of
\* the ConnectionManager's connected and disconnected events
updateConnectionState ==
    /\ smClock' = smClock + 1
    /\ smState' = [smState EXCEPT !.lastActivity = [kind |-> "Date", at |-> smClock + 1]]
    /\ triggerAutoSave

\* initialize() up to its await: unless isInitialized is set it starts the
\* health monitoring and calls connectionManager.connect(handler)
Initialize ==
    /\ orCalls.initialize < MaxInitCalls
    /\ orCalls' = [orCalls EXCEPT !.initialize = @ + 1]
    /\ IF orInitialized
       THEN UNCHANGED <<orInits, orConnects, hmMonitoring, hmPending>>
       ELSE /\ ~hmMonitoring => hmPending < MaxPending
            /\ startMonitoring
            /\ orInits' = orInits + 1
            /\ orConnects' = orConnects + 1
    /\ UNCHANGED <<orEnv, orInitialized, orShuttingDown, orShutdown, orTeardown,
                   orConnectsAtDestroy>>
    /\ UNCHANGED <<hmConfig, hmLast, hmConsecutiveFailures, hmPrevHealth,
           hmStatusChanged>>
    /\ UNCHANGED <<cmVars, smVars>>
    /\ UNCHANGED orFrame

\* the connect() of an initialize() returns `connected`: the manager's
\* onConnectionSuccess (whose connected event reaches the orchestrator's
\* listener while the manager still has listeners) or onConnectionFailure;
\* either way isInitialized = true
InitializeConnects(connected, jitter) ==
    /\ orInits > 0
    /\ IF connected
       THEN /\ onConnectionSuccess
            /\ IF orTeardown["connectionManager"] = 0
               THEN updateConnectionState
               ELSE UNCHANGED <<smClock, smState, smAutoSaveTimer>>
       ELSE /\ onConnectionFailure(jitter)
            /\ UNCHANGED <<smClock, smState, smAutoSaveTimer>>
    /\ orInitialized' = TRUE
    /\ orInits' = orInits - 1
    /\ UNCHANGED <<orEnv, orShuttingDown, orCalls, orConnects, orShutdown, orTeardown,
                   orConnectsAtDestroy>>
    /\ UNCHANGED <<smConfig, smSessions, smSnapshots, smTaken, smSnapshotTimer, smSaves, smFile,
                   smDestroyed>>
    /\ UNCHANGED hmVars
    /\ UNCHANGED orFrame

\* shutdown() up to its await.  With isShuttingDown set it returns at once.
\* Else, inside the one try block: stopMonitoring(), disconnect() (whose
\* disconnected event makes the orchestrator publish the state and emit
\* connectionLost), then saveState(); the catch logs and rethrows.
shutdown ==
    /\ orCalls.shutdown < MaxShutdownCalls
    /\ orCalls' = [orCalls EXCEPT !.shutdown = @ + 1]
    /\ IF orShuttingDown
       THEN /\ UNCHANGED <<orShuttingDown, orShutdown, orTeardown>>
            /\ UNCHANGED <<hmMonitoring, cmVars, smVars>>
       ELSE /\ orShuttingDown' = TRUE
            /\ stopMonitoring
            /\ disconnect
            /\ updateConnectionState
            /\ IF orEnv.connectionLostThrows
               THEN /\ orTeardown' = Invoked(orTeardown, {"stopMonitoring", "disconnect"})
                    /\ orShutdown' = "thrown"
                    /\ UNCHANGED smSaves
               ELSE /\ orTeardown' = Invoked(orTeardown,
                                             {"stopMonitoring", "disconnect", "saveState"})
                    /\ orShutdown' = "saving"
                    /\ smSaves' = saveState(smSaves)
            /\ UNCHANGED <<smConfig, smSessions, smSnapshots, smTaken, smSnapshotTimer, smFile,
                           smDestroyed>>
    /\ UNCHANGED <<orEnv, orInitialized, orInits, orConnects, orConnectsAtDestroy>>
    /\ UNCHANGED <<hmConfig, hmPending, hmLast, hmConsecutiveFailures, hmPrevHealth,
           hmStatusChanged>>

\* a caller's shutdown(), no process being supervised
Shutdown ==
    /\ shutdown
    /\ UNCHANGED orFrame

\* a caller's shutdown() while processes are supervised, up to its await:
\* from here on the processExited listener finds isShuttingDown set
ShutdownWhileSupervising ==
    /\ shutdown
    /\ orchAutoRestart' = (orchAutoRestart /\ ~orShuttingDown')
    /\ UNCHANGED <<pmConfig, pmInfos, pmCurrent, pmChildren, pmTimers, pmOps, pmStopReturned,
                   pmAutoSpawns>>
    /\ UNCHANGED <<erVars, heVars, wfVars, kaVars, crVars, ldVars, pubVars>>

\* the process supervision with a shutdown() beginning at any moment
PSNext ==
    \/ PMNext
    \/ ShutdownWhileSupervising

\* the awaited saveState() has resolved: the five destroy() calls, the
\* shutdown event, the return
ShutdownResumes ==
    /\ orShutdown = "saving"
    /\ smSaves = <<>>
    \* connectionManager.destroy()
    /\ healthCheckTimer' = FALSE
    /\ reconnectTimer' = "none"
    /\ UNCHANGED <<connState, abandonedEmitted>>
    \* healthMonitor.destroy()
    /\ stopMonitoring
    \* stateManager.destroy()
    /\ smSnapshotTimer' = FALSE
    /\ smAutoSaveTimer' = "none"
    /\ smSaves' = SaveOnDestroy(smSaves)
    /\ smDestroyed' = TRUE
    /\ orTeardown' = Invoked(orTeardown, DestroySteps)
    /\ orConnectsAtDestroy' = orConnects
    /\ orShutdown' = "returned"
    /\ UNCHANGED <<orEnv, orInitialized, orShuttingDown, orCalls, orInits, orConnects>>
    /\ UNCHANGED <<hmConfig, hmPending, hmLast, hmConsecutiveFailures, hmPrevHealth,
           hmStatusChanged>>
    /\ UNCHANGED <<smConfig, smState, smSessions, smClock, smSnapshots, smTaken, smFile>>
    /\ UNCHANGED orFrame

ORNext ==
    \/ Initialize
    \/ \E connected \in BOOLEAN, jitter \in Jitters : InitializeConnects(connected, jitter)
    \/ Shutdown
    \/ ShutdownResumes
    \/ \E i \in 1 .. MaxSaves : SaveSerialises(i)
    \/ \E i \in 1 .. MaxSaves : SaveWritten(i)

(***************************************************************************)
(* ServerOrchestrator.handleCriticalFailure.  One call is followed, made   *)
(* by the listener of connectionAbandoned (inside the connect() that       *)
(* fails for the last time) or of the HealthMonitor's criticalHealth, or   *)
(* with another type (process_restart_failed).  The sweep it awaits is     *)
(* killAllComfyUIProcesses, which always returns.  Callers update the      *)
(* configuration in the meantime.                                          *)
(***************************************************************************)
CriticalTypes == {"connection_abandoned", "critical_health", "process_restart_failed"}

NoCritical == [pc |-> "idle", type |-> "none", entry |-> createInitialState(0, 0)]

CRStart == crCall = NoCritical

\* stateManager.recordError(error, true)
recordCriticalError ==
    /\ smClock' = smClock + 1
    /\ smState' = [smState EXCEPT !.criticalErrors = @ + 1,
                                  !.lastActivity = [kind |-> "Date", at |-> smClock + 1]]
    /\ triggerAutoSave
    /\ UNCHANGED <<smConfig, smSessions, smSnapshots, smTaken, smSnapshotTimer, smSaves, smFile,
                   smDestroyed>>

\* handleCriticalFailure(type, data) up to its await: the error is
\* recorded, then emergencyRestart / emergencyCleanup begin their sweep;
\* another type only emits criticalFailure
handleCriticalFailure(type) ==
    /\ crCall.pc = "idle"
    /\ recordCriticalError
    /\ IF type \in {"connection_abandoned", "critical_health"}
       THEN /\ killAllComfyUIProcesses
            /\ crCall' = [pc |-> "sweeping", type |-> type, entry |-> smState']
       ELSE /\ UNCHANGED kaVars
            /\ crCall' = [pc |-> "done", type |-> type, entry |-> smState']

\* connect() fails under the orchestrator: at the last attempt the
\* connectionAbandoned listener calls handleCriticalFailure
ConnectFailsSupervised(jitter) ==
    /\ connState.reconnectAttempts < maxReconnectAttempts + MaxExtraConnects
    /\ onConnectionFailure(jitter)
    /\ IF AttemptsRemain(connState.reconnectAttempts + 1)
       THEN UNCHANGED <<smVars, kaVars, crVars>>
       ELSE handleCriticalFailure("connection_abandoned")
    /\ UNCHANGED <<erVars, heVars, wfVars, pmVars, hmVars, orVars, ldVars, pubVars>>

\* the criticalHealth listener, or a caller with another type
CriticalFailureReported(type) ==
    /\ handleCriticalFailure(type)
    /\ UNCHANGED <<erVars, heVars, wfVars, cmVars, pmVars, hmVars, orVars, ldVars, pubVars>>

\* the sweep has returned: emergencyRestart resets the state (keeping the
\* configuration) and the reconnect attempts, emergencyCleanup only emits
EmergencyRecoveryReturns ==
    /\ crCall.pc = "sweeping"
    /\ kaOutcome = "returned"
    /\ crCall' = [crCall EXCEPT !.pc = "done"]
    /\ IF crCall.type = "connection_abandoned"
       THEN /\ smClock' = smClock + 1
            /\ smSessions' = smSessions + 1
            /\ smState' = resetState(smState, smSessions + 1, smClock + 1, TRUE)
            /\ triggerAutoSave
            /\ UNCHANGED <<smConfig, smSnapshots, smTaken, smSnapshotTimer, smSaves, smFile,
                           smDestroyed>>
            /\ resetReconnectAttempts
       ELSE UNCHANGED <<smVars, cmVars>>
    /\ UNCHANGED <<erVars, heVars, wfVars, pmVars, kaVars, hmVars, orVars, ldVars, pubVars>>

CRNext ==
    \/ \E jitter \in Jitters : ConnectFailsSupervised(jitter)
    \/ \E type \in CriticalTypes \ {"connection_abandoned"} : CriticalFailureReported(type)
    \/ EmergencyRecoveryReturns
    \/ \E v \in 0 .. 1 : UpdateConfiguration(v)
    \/ \E rejects \in BOOLEAN : ManagedStopSettles(rejects)
    \/ \E resolves \in BOOLEAN : KillCommandSettles(resolves)
    \/ \E lines \in 0 .. MaxLines, killed \in 0 .. MaxLines : PortScanned(lines, killed)
    \/ \E resolves \in BOOLEAN : NetworkResetSettles(resolves)

(***************************************************************************)
(* ServerState.connectionState.isConnected, the copy of the connection     *)
(* flag that the orchestrator's listeners of the ConnectionManager's       *)
(* events publish (setupComponentInteractions).  emit() runs the listeners *)
(* before it returns, so each action holds the emitting operation and its  *)
(* listeners.  The ServerState of the model keeps the field apart from     *)
(* smState: only the actions below follow it.                              *)
(***************************************************************************)
\* createInitialState(): connectionState.isConnected is false
PUBStart ==
    /\ stIsConnected = FALSE
    /\ stRestarts = 0

\* what the listeners' updateConnectionState leaves alone
smPublishFrame == <<smConfig, smSessions, smSnapshots, smTaken, smSnapshotTimer, smSaves, smFile,
                    smDestroyed>>

\* connect() succeeds: the connected listener publishes isConnected true
ConnectSucceedsPublished ==
    /\ smClock < MaxMutations
    /\ onConnectionSuccess
    /\ updateConnectionState
    /\ stIsConnected' = TRUE
    /\ UNCHANGED <<stRestarts, smPublishFrame>>
    /\ UNCHANGED pubFrame

\* connect() fails: connectionFailed has no listener in the orchestrator;
\* at the last attempt the connectionAbandoned listener records the error
\* and emergencyRestart begins its sweep
ConnectFailsPublished(jitter) ==
    /\ connState.reconnectAttempts < maxReconnectAttempts + MaxExtraConnects
    /\ onConnectionFailure(jitter)
    /\ IF AttemptsRemain(connState.reconnectAttempts + 1)
       THEN UNCHANGED <<smVars, stRestarts>>
       ELSE /\ smClock < MaxMutations
            /\ recordCriticalError
            /\ stRestarts' = stRestarts + 1
    /\ UNCHANGED stIsConnected
    /\ UNCHANGED pubFrame

\* disconnect(): the disconnected listener publishes isConnected false
DisconnectPublished ==
    /\ smClock < MaxMutations
    /\ disconnect
    /\ updateConnectionState
    /\ stIsConnected' = FALSE
    /\ UNCHANGED <<stRestarts, smPublishFrame>>
    /\ UNCHANGED pubFrame

\* a tick of the health-probe interval: handleUnhealthyConnection calls
\* disconnect(), whose event the disconnected listener publishes
HealthProbePublished(isHealthy) ==
    /\ healthProbe(isHealthy)
    /\ IF isHealthy # connState.isHealthy /\ ~isHealthy /\ connState.isConnected
       THEN /\ smClock < MaxMutations
            /\ updateConnectionState
            /\ stIsConnected' = FALSE
            /\ UNCHANGED smPublishFrame
       ELSE UNCHANGED <<smVars, stIsConnected>>
    /\ UNCHANGED stRestarts
    /\ UNCHANGED pubFrame

\* StateManager.resetState: connectionState is initialized afresh
resetConnectionState(preserveConfiguration) ==
    /\ smClock' = smClock + 1
    /\ smSessions' = smSessions + 1
    /\ smState' = resetState(smState, smSessions + 1, smClock + 1, preserveConfiguration)
    /\ triggerAutoSave
    /\ stIsConnected' = FALSE
    /\ UNCHANGED <<smConfig, smSnapshots, smTaken, smSnapshotTimer, smSaves, smFile, smDestroyed>>

\* a caller's resetState(preserveConfiguration)
ResetStatePublished(preserveConfiguration) ==
    /\ smClock < MaxMutations
    /\ resetConnectionState(preserveConfiguration)
    /\ UNCHANGED <<cmVars, stRestarts>>
    /\ UNCHANGED pubFrame

\* emergencyRestart() after its sweep: resetState(true), then
\* resetReconnectAttempts()
EmergencyRestartResets ==
    /\ stRestarts > 0
    /\ smClock < MaxMutations
    /\ stRestarts' = stRestarts - 1
    /\ resetConnectionState(TRUE)
    /\ resetReconnectAttempts
    /\ UNCHANGED pubFrame

PUBNext ==
    \/ ConnectSucceedsPublished
    \/ \E jitter \in Jitters : ConnectFailsPublished(jitter)
    \/ DisconnectPublished
    \/ \E isHealthy \in BOOLEAN : HealthProbePublished(isHealthy)
    \/ \E preserveConfiguration \in BOOLEAN : ResetStatePublished(preserveConfiguration)
    \/ EmergencyRestartResets

(***************************************************************************)
(* The specifications: one per component, each starting from the state     *)
(* after construction of all of them.                                      *)
(***************************************************************************)
\* every component but `c` in its state after construction, under the
\* orchestrator's configuration
StartExcept(c) ==
    /\ c # "er" => ERStart(OrchestratorERConfig)
    /\ HEStart
    /\ CRStart
    /\ PUBStart
    /\ c # "wf" => WFStart
    /\ c # "cm" => CMStart
    /\ c # "pm" => PMStart([autoRestart |-> TRUE, maxRestarts |-> 0], TRUE)
    /\ c # "ka" => KAStart([managed |-> FALSE, osProcess |-> FALSE, portInUse |-> FALSE,
                             quietExit |-> FALSE])
    /\ c # "sm" => SMStart([persistState |-> TRUE, autoSave |-> TRUE]) /\ LDStart(TRUE, FALSE)
    /\ c # "hm" => HMStart([healthThreshold |-> healthThreshold,
                            criticalThreshold |-> criticalThreshold])
    /\ c # "or" => ORStart([connectionLostThrows |-> FALSE])

ERInit ==
    /\ \E cfg \in ERConfigs : ERStart(cfg)
    /\ StartExcept("er")

SpecRecovery == ERInit /\ [][ERNext]_vars

\* recoveryHistory as earlier calls can have left it: empty, one below the
\* cap, at the cap
HistoryLengths == {0, maxHistorySize - 1, maxHistorySize}

HEInit ==
    /\ StartExcept("er")
    /\ \E cfg \in {c \in ERConfigs : c.errorRecovery}, h \in HistoryLengths :
          /\ erConfig = cfg
          /\ now = 0
          /\ circuitBreakers = [k \in Keys |-> NoBreaker]
          /\ recoveryHistory = h
          /\ erEmitted = 0
          /\ calls = [c \in Calls |-> IdleCall]
          /\ callsStarted = 0
          /\ activeOperations = {}

SpecStrategies == HEInit /\ [][HENext]_vars

WFInit ==
    /\ WFStart
    /\ StartExcept("wf")

SpecWorkflow == WFInit /\ [][WFNext]_vars

CMInit ==
    /\ CMStart
    /\ StartExcept("cm")

PMInit ==
    /\ \E cfg \in ProcessConfigs, orchestrated \in BOOLEAN : PMStart(cfg, orchestrated)
    /\ StartExcept("pm")

SpecProcess == PMInit /\ [][PMNext]_vars

SpecSupervision == PMInit /\ [][PSNext]_vars

KAInit ==
    /\ \E env \in CleanupEnvs : KAStart(env)
    /\ StartExcept("ka")

SpecCleanup == KAInit /\ [][KANext]_vars

SpecCritical == KAInit /\ [][CRNext]_vars

SMInit ==
    /\ \E cfg \in SMConfigs : SMStart(cfg) /\ LDStart(cfg.persistState, FALSE)
    /\ StartExcept("sm")

SpecState == SMInit /\ [][SMNext]_vars

LDInit ==
    /\ StartExcept("sm")
    /\ \E cfg \in SMConfigs, file \in PersistedStates : SMStartWithFile(cfg, file)

SpecLoad == LDInit /\ [][LDNext]_vars

PUBInit == StartExcept("none")

SpecPublished == PUBInit /\ [][PUBNext]_vars

HMInit ==
    /\ StartExcept("hm")
    /\ \E cfg \in HMConfigs : HMStart(cfg)

SpecHealth == HMInit /\ [][HMNext]_vars

ORInit ==
    /\ StartExcept("or")
    /\ \E env \in [connectionLostThrows : BOOLEAN] : ORStart(env)

SpecLifecycle == ORInit /\ [][ORNext]_vars

SpecConnection == CMInit /\ [][CMNext]_vars

\* The ConnectionManager with its timers firing: a pending reconnect one-shot
\* fires unless it is cleared first.  The callers of connect(), disconnect()
\* and resetReconnectAttempts() are under no obligation to call them.
SpecReconnect == CMInit /\ [][CMNext]_vars /\ WF_vars(ReconnectTimerFires)

(***************************************************************************)
(* Claims about executeWithRecovery and the circuit breaker.               *)
(***************************************************************************)

\* C1: the executor of one executeWithRecovery call is invoked at most
\* twice; a second invocation happens only after the first one threw and
\* handleError returned true; when the second invocation throws, its error
\* (E2) is what the call throws, with handleError called once and no third
\* invocation.
C1_ExecutorAtMostTwice ==
    \A c \in Calls :
        /\ calls[c].execCount <= 2
        /\ calls[c].execCount = 2 => calls[c].recovered = "true" /\ calls[c].handled = 1
        /\ calls[c].pc = "exec2" => calls[c].execCount = 2
        /\ (calls[c].pc = "threw" /\ calls[c].execCount = 2) => calls[c].thrown = "E2"
        /\ calls[c].thrown = "E2" => calls[c].handled = 1 /\ calls[c].execCount = 2

C1_Witness ==
    \E c \in Calls : calls[c].pc = "threw" /\ calls[c].thrown = "E2" /\ calls[c].execCount = 2

\* C2: when the first invocation threw E1 and there was no successful
\* recovery (handleError returned false, also because the breaker was open,
\* or error recovery is disabled), the call throws E1 itself and the
\* executor was invoked once.
C2_UnrecoveredRethrowsSame ==
    \A c \in Calls :
        (calls[c].pc = "threw" /\ calls[c].recovered # "true")
            => calls[c].thrown = "E1" /\ calls[c].execCount = 1

C2_Witness ==
    \E c \in Calls :
        /\ calls[c].pc = "threw" /\ calls[c].recovered = "false"
        /\ calls[c].thrown = "E1" /\ erEmitted > 0

\* C3: a breaker opens exactly when its failures reach the threshold and,
\* once open, closes only when now - lastFailure exceeds the timeout, under
\* every interleaving of handleError calls for the key.
C3_BreakerOpensAtThresholdClosesOnTimeout ==
    [][\A k \in Keys :
         /\ circuitBreakers'[k].isOpen <=> circuitBreakers'[k].failures >= circuitBreakerThreshold
         /\ (circuitBreakers[k].isOpen /\ ~circuitBreakers'[k].isOpen)
                => now - circuitBreakers[k].lastFailure > circuitBreakerTimeout]_vars

\* the first half of C3 alone
BreakerOpenIffThreshold ==
    \A k \in Keys :
        circuitBreakers[k].isOpen <=> circuitBreakers[k].failures >= circuitBreakerThreshold

\* C4: a handleError call made while the key's breaker is open and its
\* timeout has not elapsed returns false, emits circuitBreakerOpen, runs no
\* strategy, appends nothing to the history and leaves the failure count.
HandleErrorCalled(c) ==
    calls[c].pc = "exec1" /\ calls'[c].pc # "exec1" /\ calls'[c].handled = 1

BreakerOpenNow(k) ==
    /\ circuitBreakers[k].present
    /\ circuitBreakers[k].isOpen
    /\ now - circuitBreakers[k].lastFailure <= circuitBreakerTimeout

C4_OpenBreakerFailsFast ==
    [][\A c \in Calls :
         (HandleErrorCalled(c) /\ BreakerOpenNow(calls[c].key))
            => /\ calls'[c].recovered = "false"
               /\ calls'[c].pc = "threw"
               /\ erEmitted' = erEmitted + 1
               /\ recoveryHistory' = recoveryHistory
               /\ circuitBreakers' = circuitBreakers]_vars

C4_Witness ==
    /\ erEmitted > 0
    /\ now > 0
    /\ \E k \in Keys : BreakerOpenNow(k)

(***************************************************************************)
(* Claims about resolveDependencies and execute_workflow_chain.            *)
(***************************************************************************)
\* the steps that step i depends on, directly or through other steps
RECURSIVE DependencyClosure(_, _, _)
DependencyClosure(steps, set, k) ==
    IF k = 0 THEN set
    ELSE DependencyClosure(steps, set \cup UNION {steps[j] : j \in set}, k - 1)

HasCycle(steps) ==
    \E i \in 1 .. Len(steps) : i \in DependencyClosure(steps, steps[i], Len(steps))

BatchesOf(batches, s) == {k \in 1 .. Len(batches) : s \in Range(batches[k])}

\* C5: for an acyclic list of steps whose dependencies exist, in any list
\* order, resolveDependencies returns batches in which every step occurs
\* exactly once and every dependency of a step lies in a strictly earlier
\* batch; [A, B(deps A), C(deps A)] gives [A] then {B, C}.
C5_DependenciesInEarlierBatch ==
    (workflowChains # NoChain /\ ~HasCycle(workflowChains.steps))
        => LET steps == workflowChains.steps
               r == resolveDependencies(steps)
           IN /\ ~r.error
              /\ \A k \in 1 .. Len(r.batches) :
                    Cardinality(Range(r.batches[k])) = Len(r.batches[k])
              /\ \A s \in 1 .. Len(steps) : Cardinality(BatchesOf(r.batches, s)) = 1
              /\ \A s \in 1 .. Len(steps) : \A d \in steps[s] :
                    \A ks \in BatchesOf(r.batches, s), kd \in BatchesOf(r.batches, d) : kd < ks
              /\ steps = <<{}, {1}, {1}>>
                    => /\ Len(r.batches) = 2
                       /\ Range(r.batches[1]) = {1}
                       /\ Range(r.batches[2]) = {2, 3}

\* the part of C5 that the code satisfies: the batches partition the steps,
\* and the example of the specification
BatchesPartitionSteps ==
    (workflowChains # NoChain /\ ~HasCycle(workflowChains.steps))
        => LET steps == workflowChains.steps
               r == resolveDependencies(steps)
           IN /\ ~r.error
              /\ \A s \in 1 .. Len(steps) : Cardinality(BatchesOf(r.batches, s)) = 1
              /\ steps = <<{}, {1}, {1}>>
                    => /\ Len(r.batches) = 2
                       /\ Range(r.batches[1]) = {1}
                       /\ Range(r.batches[2]) = {2, 3}

ExecutionAttempted == wfResponse \in {"execError", "pending", "results"}

\* C6: for a list of steps with a dependency cycle (a self-dependency
\* included) resolveDependencies raises the circular-dependency error, and
\* execute_workflow_chain returns an error with no step started or submitted
\* and no execution context stored.
C6_CycleRaisesBeforeAnyStep ==
    (workflowChains # NoChain /\ HasCycle(workflowChains.steps))
        => /\ resolveDependencies(workflowChains.steps).error
           /\ ExecutionAttempted
                => /\ wfResponse = "execError"
                   /\ \A s \in StepIds : stepState[s] = "pending"
                   /\ submitted = {}
                   /\ ~wfExec.stored

C6_Witness ==
    /\ workflowChains # NoChain
    /\ HasCycle(workflowChains.steps)
    /\ \E s \in 1 .. Len(workflowChains.steps) : workflowChains.steps[s] = {}
    /\ wfResponse = "execError"

\* C7: under failureStrategy stop, once a step of a batch has rejected, no
\* step of a later batch is ever started and the run ends with status
\* failed; two steps without dependencies form one batch.
C7_StopAbortsLaterBatches ==
    (workflowChains.failureStrategy = "stop" /\ wfExec.pc # "idle")
        => /\ \A k \in 1 .. Len(wfExec.batches) :
                (\E s \in Range(wfExec.batches[k]) : stepState[s] = "rejected")
                    => /\ \A j \in (k + 1) .. Len(wfExec.batches) :
                            \A t \in Range(wfExec.batches[j]) : stepState[t] = "pending"
                       /\ wfExec.pc = "done" => wfExec.status = "failed"
           /\ workflowChains.steps = <<{}, {}>> => Len(wfExec.batches) = 1

C7_Witness ==
    /\ workflowChains.failureStrategy = "stop"
    /\ wfExec.pc = "done"
    /\ wfExec.status = "failed"
    /\ Len(wfExec.batches) > wfExec.batchIndex
    /\ \E s \in Range(wfExec.batches[wfExec.batchIndex]) : stepState[s] = "fulfilled"

\* C8: a step of batch k+1 is started only when every step of batch k has
\* settled.
C8_BatchesNeverOverlap ==
    \A k \in 1 .. Len(wfExec.batches) - 1 :
        (\E s \in Range(wfExec.batches[k + 1]) : stepState[s] # "pending")
            => \A t \in Range(wfExec.batches[k]) : Settled(stepState[t])

C8_Witness ==
    /\ Len(wfExec.batches) >= 2
    /\ Len(wfExec.batches[1]) >= 2
    /\ \E s \in Range(wfExec.batches[2]) : stepState[s] = "running"
    /\ \E t \in Range(wfExec.batches[1]) : stepState[t] = "rejected"

(***************************************************************************)
(* Claims about the reconnect backoff and the abandonment.                 *)
(***************************************************************************)
\* C9: after the N-th consecutive failed connect(), N below
\* maxReconnectAttempts, reconnectDelay is the N-fold application of
\* d -> min(2*d + jitter, maxReconnectDelay), jitter in [0, 1000), to the
\* base delay: it lies between min(base*2^N, max) and
\* min(base*2^N + (2^N - 1)*999, max); a failed connect() never decreases it
\* and never takes it above maxReconnectDelay.
DelayWithinBounds(st) ==
    LET N == st.reconnectAttempts IN
    N < maxReconnectAttempts
        => /\ st.reconnectDelay >= Min(baseReconnectDelay * 2 ^ N, maxReconnectDelay)
           /\ st.reconnectDelay
                <= Min(baseReconnectDelay * 2 ^ N + (2 ^ N - 1) * (JitterRange - 1),
                       maxReconnectDelay)

C9_BackoffDelay ==
    [][/\ DelayWithinBounds(connState) /\ DelayWithinBounds(connState')
       /\ connState'.reconnectAttempts = connState.reconnectAttempts + 1
            => /\ connState'.reconnectDelay >= connState.reconnectDelay
               /\ connState'.reconnectDelay <= maxReconnectDelay
               /\ connState'.reconnectAttempts < maxReconnectAttempts
                    => \/ connState'.reconnectDelay = maxReconnectDelay
                       \/ connState'.reconnectDelay - 2 * connState.reconnectDelay
                            \in 0 .. JitterRange - 1]_vars

C9_Witness ==
    /\ connState.reconnectAttempts = 3
    /\ connState.reconnectDelay > 8 * baseReconnectDelay
    /\ connState.reconnectDelay < maxReconnectDelay
    /\ reconnectTimer = "pending"

\* C10: connectionAbandoned is emitted exactly once per run of
\* maxReconnectAttempts consecutive failures: not before the maximum is
\* reached, and not again by later connect() calls without a success or a
\* reset in between.
C10_AbandonedExactlyOnce ==
    /\ abandonedEmitted <= 1
    /\ abandonedEmitted = 1 <=> connState.reconnectAttempts >= maxReconnectAttempts

\* what the code does: one connectionAbandoned for each failed connect() from
\* the maxReconnectAttempts-th on
AbandonedPerFailureFromMax ==
    abandonedEmitted =
        IF connState.reconnectAttempts >= maxReconnectAttempts
        THEN connState.reconnectAttempts - maxReconnectAttempts + 1
        ELSE 0

\* C11: after a failed connect() that leaves reconnectAttempts below
\* maxReconnectAttempts (a reconnect is scheduled), a new connection attempt
\* is eventually made by the manager itself: the attempt either succeeds
\* (connected) or fails (one more reconnectAttempt), unless the pending
\* reconnect is cleared by disconnect().
C11_ReconnectProbesAgain ==
    \A n \in 1 .. maxReconnectAttempts - 1 :
        (reconnectTimer = "pending" /\ connState.reconnectAttempts = n)
            ~> \/ connState.isConnected
               \/ connState.reconnectAttempts # n
               \/ reconnectTimer = "none"

\* what the code does: once fired, the reconnect one-shot has changed nothing
\* of the connection state, and it stays fired until a caller acts
ReconnectTimerOnlyNotifies ==
    [][reconnectTimer = "pending" /\ reconnectTimer' = "fired"
            => connState' = connState]_vars

(***************************************************************************)
(* Claims about the ProcessManager's restarts and stopProcess.             *)
(***************************************************************************)
\* C12: over any run the restartCount of the process never exceeds
\* maxRestarts (5 when the config sets none), and the process is respawned
\* without a caller's request (by a restart timer or by the orchestrator's
\* handleProcessFailure) at most maxRestarts times.
C12_RestartsBounded ==
    /\ pmCurrent # 0 => pmInfos[pmCurrent].restartCount <= MaxRestartsOf(pmConfig)
    /\ pmAutoSpawns <= MaxRestartsOf(pmConfig)

\* the count in the `processes` map stays within the maximum
RestartCountBounded ==
    pmCurrent # 0 => pmInfos[pmCurrent].restartCount <= MaxRestartsOf(pmConfig)

\* the exit handler sets a restart timer exactly when autoRestart is set and
\* the restartCount of the object it holds is below the maximum
ExitSchedulesIffAllowed ==
    [][\A c \in pmChildren :
          c.info \notin {d.info : d \in pmChildren'}
              => (Len(pmTimers') = Len(pmTimers) + 1
                    <=> /\ pmConfig.autoRestart
                        /\ pmInfos[c.info].restartCount < MaxRestartsOf(pmConfig))]_vars

\* C13: once stopProcess(name) has returned, and until a caller starts or
\* restarts the process, no restart timer is pending for it.
C13_StopLeavesNoRestartPending ==
    pmStopReturned => Len(pmTimers) = 0

(***************************************************************************)
(* Claims about killAllComfyUIProcesses.                                   *)
(***************************************************************************)
\* C14: killAllComfyUIProcesses never throws, and when no managed or
\* OS-level process matches and no listed port is in use it returns
\* processesKilled = 0, portsCleared = 0 and success = true.
C14_CleanupOfNothingReportsZero ==
    /\ kaOutcome # "thrown"
    /\ (kaOutcome = "returned" /\ ~kaEnv.managed /\ ~kaEnv.osProcess /\ ~kaEnv.portInUse)
            => /\ kaResult.processesKilled = 0
               /\ kaResult.portsCleared = 0
               /\ kaResult.success

\* what the code does: it never throws, and with nothing to clean up it
\* reports success, no port cleared, and one process killed for every kill
\* command that exited with status 0
CleanupNeverThrows ==
    /\ kaOutcome # "thrown"
    /\ (kaOutcome = "returned" /\ ~kaEnv.managed /\ ~kaEnv.osProcess /\ ~kaEnv.portInUse)
            => /\ kaResult.processesKilled = (IF kaEnv.quietExit THEN NumKillCommands ELSE 0)
               /\ kaResult.portsCleared = 0
               /\ kaResult.success

(***************************************************************************)
(* Claims about the StateManager's snapshots and its saves.                *)
(***************************************************************************)
\* a and b are deep-equal on every field other than sessionId
EqualExceptSession(a, b) == [a EXCEPT !.sessionId = 0] = [b EXCEPT !.sessionId = 0]

\* the step restores the index-th snapshot
RestoreStep(index) ==
    /\ index \in 1 .. Len(smSnapshots)
    /\ smState' = Restore(smSnapshots[index])
    /\ UNCHANGED <<smClock, smSnapshots, smSaves, smDestroyed, smAutoSaveTimer>>

\* C15: restoring snapshot S gives a state deep-equal, on every field other
\* than sessionId, to the state at the moment S was taken.
C15_RestoreReproducesState ==
    [][\A index \in 1 .. MaxSnapshots :
          RestoreStep(index) => EqualExceptSession(smState', smTaken[index])]_vars

\* what the code does: a stored snapshot is the JSON image of the state at
\* the moment it was taken, whatever mutations follow, and a restore gives
\* that image: every Date has become a string
SnapshotIsJsonImage ==
    /\ Len(smSnapshots) = Len(smTaken)
    /\ \A index \in 1 .. Len(smSnapshots) : smSnapshots[index] = JsonClone(smTaken[index])

\* C16: restoreFromSnapshot never alters sessionId.
C16_RestoreKeepsSessionId ==
    [][\A index \in 1 .. MaxSnapshots :
          RestoreStep(index) => smState'.sessionId = smState.sessionId]_vars

\* what the code does: the restored state carries the snapshot's sessionId
RestoreTakesSnapshotSessionId ==
    [][\A index \in 1 .. MaxSnapshots :
          RestoreStep(index) => smState'.sessionId = smTaken[index].sessionId]_vars

\* C17: with persistence enabled, once destroy() was called and every save
\* has completed, the state file holds the state as destroy() found it,
\* the last mutation included.
C17_DestroyPersistsLastMutation ==
    (smDestroyed /\ smConfig.persistState /\ smSaves = <<>>) => smFile = JsonClone(smState)

\* what the code does: destroy() always starts a save, and that save
\* serialises the state as destroy() found it
DestroySaveCarriesState ==
    [][/\ (~smDestroyed /\ smDestroyed' /\ smConfig.persistState)
            => /\ Len(smSaves') = Len(smSaves) + 1
               /\ smAutoSaveTimer' = "none"
       /\ (smDestroyed /\ Len(smSaves) > 0 /\ Len(smSaves') = Len(smSaves)
              /\ smSaves'[Len(smSaves)].phase = "writing"
              /\ smSaves[Len(smSaves)].phase = "ensureDir")
            => smSaves'[Len(smSaves)].data = JsonClone(smState)]_vars

(***************************************************************************)
(* C18: the health score and the status it maps to.                        *)
(***************************************************************************)
\* the probe of the service answered in less than a second
SubSecondResponse(metrics) ==
    metrics.comfyui.responseTime # Null /\ metrics.comfyui.responseTime < 1000

\* the points the rubric gives to the eight readings of a check
RubricScore(metrics) ==
    Points(metrics.comfyui.isRunning, 30)
    + Points(SubSecondResponse(metrics), 10)
    + Points(metrics.mcp.isResponsive, 20)
    + Points(metrics.mcp.heapUsed < heapLimit, 10)
    + Points(metrics.system.networkConnectivity, 10)
    + Points(metrics.system.availableMemory # Null
                /\ metrics.system.availableMemory > memoryHeadroom, 10)
    + Points(metrics.process.comfyuiProcesses > 0, 5)
    + Points(metrics.process.port8188Open, 5)

\* the status is the step function of the score over the two thresholds
StatusFollowsThresholds ==
    hmLast # NoMetrics =>
        LET score == hmLast.healthScore
            status == hmLast.overallHealth
        IN  /\ status = "healthy" <=> score >= hmConfig.healthThreshold
            /\ status = "degraded" <=>
                   (hmConfig.criticalThreshold <= score /\ score < hmConfig.healthThreshold)
            /\ status = "unhealthy" <=> (0 < score /\ score < hmConfig.criticalThreshold)
            /\ status = "critical" <=> score = 0

\* C18: after every health check the score is the rubric's sum of the eight
\* readings (30 running, 10 sub-second response, 20 responsive, 10 bounded
\* memory, 10 connectivity, 10 memory headroom, 5 process present, 5 port
\* open) and the status is the step function of the score.
C18_ScoreFollowsRubric ==
    /\ hmLast # NoMetrics => hmLast.healthScore = RubricScore(hmLast)
    /\ StatusFollowsThresholds

\* apart from a response time of 0 ms the score is the rubric's sum
ScoreFollowsRubricAboveZero ==
    (hmLast # NoMetrics /\ hmLast.comfyui.responseTime # 0) =>
        hmLast.healthScore = RubricScore(hmLast)

\* a response time of 0 ms earns no points for the response
ZeroResponseTimeEarnsNothing ==
    (hmLast # NoMetrics /\ hmLast.comfyui.responseTime = 0) =>
        hmLast.healthScore = RubricScore(hmLast) - 10

(***************************************************************************)
(* C19, C20: the orchestrator's shutdown and lifecycle.                    *)
(***************************************************************************)
\* C19: a shutdown() that has ended did not throw and invoked the destroy
\* of every component, also when a teardown step threw.
C19_TeardownFailureDoesNotBlock ==
    orShutdown \in {"returned", "thrown"} =>
        /\ orShutdown = "returned"
        /\ \A s \in DestroySteps : orTeardown[s] >= 1

\* a shutdown() none of whose steps throws invokes every teardown step once
QuietShutdownInvokesAll ==
    orShutdown = "returned" => \A s \in TeardownSteps : orTeardown[s] = 1

\* a step that throws ends shutdown() before any destroy
ThrownShutdownDestroysNothing ==
    orShutdown = "thrown" => \A s \in DestroySteps : orTeardown[s] = 0

\* the lifecycle state the two flags and the calls in flight stand for
Lifecycle ==
    IF orShutdown \in {"returned", "thrown"} THEN "shutdown"
    ELSE IF orShuttingDown THEN "shuttingDown"
    ELSE IF orInitialized THEN "initialized"
    ELSE IF orInits > 0 THEN "initializing"
    ELSE "uninitialized"

\* the moves of the lifecycle; a shutdown() that throws before its await
\* passes through shuttingDown within one step
LifecycleMoves ==
    {<<"uninitialized", "initializing">>, <<"initializing", "initialized">>}
        \cup {<<from, "shuttingDown">> :
                from \in {"uninitialized", "initializing", "initialized"}}
        \cup {<<from, "shutdown">> :
                from \in {"uninitialized", "initializing", "initialized", "shuttingDown"}}

\* the lifecycle only makes the moves listed
LifecycleOnlyMovesForward ==
    [][Lifecycle' # Lifecycle => <<Lifecycle, Lifecycle'>> \in LifecycleMoves]_vars

\* every teardown step is invoked at most once, however often shutdown() is called
TeardownAtMostOnce == \A s \in TeardownSteps : orTeardown[s] <= 1

\* C20: the lifecycle only moves forward, no teardown step is invoked twice,
\* and once shutdown() has begun nothing starts the health monitoring or a
\* connection attempt again.
C20_ShutdownIsTerminal ==
    [][/\ Lifecycle' # Lifecycle => <<Lifecycle, Lifecycle'>> \in LifecycleMoves
       /\ \A s \in TeardownSteps : orTeardown'[s] <= 1
       /\ orShuttingDown => /\ hmMonitoring' => hmMonitoring
                            /\ orConnects' = orConnects]_vars

\* an initialize() made before shutdown() began starts nothing after it
InitializedOrchestratorStaysDown ==
    [][(orShuttingDown /\ orInitialized) =>
            /\ hmMonitoring' => hmMonitoring
            /\ orConnects' = orConnects]_vars

(***************************************************************************)
(* C21, C22: reading the status of a run, and the steps running at once.   *)
(***************************************************************************)
\* C21: a get_execution_status call changes neither the chain, the stored
\* context nor the steps; made while the run is in flight it finds the
\* context with status running and reports exactly the step results
\* recorded so far, failures as failures and successes as successes.
C21_StatusIsPureRead ==
    [][wfReads' # wfReads =>
          /\ UNCHANGED <<workflowChains, wfExec, stepState, submitted, missingFiles>>
          /\ wfExec.pc = "running" =>
                /\ wfStatusReply'.found
                /\ wfStatusReply'.status = "running"
                /\ \A s \in StepIds :
                      /\ wfStatusReply'.stepStatuses[s] = "Failed"
                            <=> wfExec.stepResults[s] = "error"
                      /\ wfStatusReply'.stepStatuses[s] = "Success"
                            <=> wfExec.stepResults[s] = "promptId"]_vars

\* a second call made during a run that has recorded a failed step
C21_Witness ==
    /\ wfReads >= 2
    /\ wfExec.pc = "running"
    /\ wfStatusReply.found
    /\ \E s \in StepIds : wfStatusReply.stepStatuses[s] = "Failed"

\* the steps of the run whose executeWorkflowStep has not settled
StepsExecuting == {s \in StepIds : stepState[s] = "running"}

\* C22: at no time are more steps of the chain executing than its
\* maxConcurrency.
C22_ConcurrencyLimited ==
    workflowChains # NoChain =>
        Cardinality(StepsExecuting) <= workflowChains.maxConcurrency

\* the steps executing at once are those of one batch, whatever maxConcurrency is
WholeBatchExecutes ==
    wfExec.pc = "running" =>
        StepsExecuting \subseteq Range(wfExec.batches[wfExec.batchIndex])

(***************************************************************************)
(* C23: timers after destroy().                                            *)
(***************************************************************************)
\* C23: once shutdown() has destroyed the connection manager and no
\* connect() was called since, neither its health-probe interval nor its
\* reconnect one-shot is set, also when a connect() was in flight at the
\* time of the destroy.
C23_NoTimerAfterDestroy ==
    (orTeardown["connectionManager"] >= 1 /\ orConnects = orConnectsAtDestroy) =>
        /\ ~healthCheckTimer
        /\ reconnectTimer # "pending"

\* with no connect() in flight the connection manager's timers stay cleared
NoTimerAfterQuietDestroy ==
    (orTeardown["connectionManager"] >= 1 /\ orConnects = orConnectsAtDestroy
            /\ orInits = 0 /\ orCalls.initialize = 0) =>
        /\ ~healthCheckTimer
        /\ reconnectTimer # "pending"

\* the attempts of the call at hand went to strategies whose condition holds
\* for the error, in ascending priority
AttemptsInPriorityOrder ==
    /\ \A i \in 1 .. Len(heLog) :
          \E j \in 1 .. Len(heCall.applicable) :
              /\ heCall.applicable[j].name = heLog[i].name
              /\ heCall.applicable[j].priority = heLog[i].priority
    /\ \A i, j \in 1 .. Len(heLog) : i < j => heLog[i].priority <= heLog[j].priority

\* every applicable strategy of higher urgency than the one tried last was
\* tried before it
NoStrategySkipped ==
    \A j \in 1 .. Len(heCall.applicable) :
        (Len(heLog) > 0 /\ heCall.applicable[j].priority < heLog[Len(heLog)].priority)
            => \E i \in 1 .. Len(heLog) : heLog[i].priority = heCall.applicable[j].priority

\* an attempt that returned true is the last one of its call, the call
\* returned true and left the key's breaker reset
FirstSuccessEndsCall ==
    \A i \in 1 .. Len(heLog) :
        heLog[i].outcome = "true"
            => /\ i = Len(heLog)
               /\ heCall.pc = "returned"
               /\ heCall.result
               /\ circuitBreakers[HEKey].failures = 0
               /\ ~circuitBreakers[HEKey].isOpen

\* C24: handleError tries the strategies whose condition holds in ascending
\* priority order, also with strategies added by addStrategy, and the first
\* attempt that returns true ends the call with result true and the key's
\* breaker reset; no attempt follows it
C24_StrategiesInPriorityOrder ==
    /\ AttemptsInPriorityOrder
    /\ NoStrategySkipped
    /\ FirstSuccessEndsCall

\* a call that tried an added strategy placed before a default one and a
\* default one after it, the second of which succeeded
C24_Witness ==
    /\ heCall.pc = "returned"
    /\ heCall.result
    /\ Len(heLog) >= 2
    /\ heLog[1].name \notin DefaultNames
    /\ heLog[Len(heLog)].name \in DefaultNames
    /\ heLog[1].priority < heLog[Len(heLog)].priority

\* number of attempts of the call at hand that went to the strategy at
\* position j of its applicable list
AttemptsOf(j) ==
    Cardinality({i \in 1 .. Len(heLog) :
                    /\ heLog[i].name = heCall.applicable[j].name
                    /\ heLog[i].priority = heCall.applicable[j].priority
                    /\ heLog[i].attempt <= heCall.applicable[j].maxAttempts})

SettledAttempts == Cardinality({i \in 1 .. Len(heLog) : heLog[i].outcome # "pending"})

Exhausted ==
    /\ heCall.pc = "returned"
    /\ heCall.tried
    /\ ~heCall.result

\* no attempt carries a number above its strategy's maxAttempts
AtMostMaxAttempts ==
    \A i \in 1 .. Len(heLog) :
        \E j \in 1 .. Len(heCall.applicable) :
            /\ heCall.applicable[j].name = heLog[i].name
            /\ heCall.applicable[j].priority = heLog[i].priority
            /\ heLog[i].attempt <= heCall.applicable[j].maxAttempts
            /\ \A i2 \in 1 .. Len(heLog) :
                  (i2 # i /\ heLog[i2].name = heLog[i].name
                          /\ heLog[i2].priority = heLog[i].priority)
                      => heLog[i2].attempt # heLog[i].attempt

\* a call that returns false after trying has recorded one failure with the
\* breaker enabled
OneFailureRecorded ==
    (Exhausted /\ erConfig.enableCircuitBreaker)
        => /\ circuitBreakers[HEKey].failures = heCall.entry.breaker.failures + 1
           /\ circuitBreakers[HEKey].isOpen =
                  (heCall.entry.breaker.isOpen
                       \/ circuitBreakers[HEKey].failures >= circuitBreakerThreshold)
           /\ \A i \in 1 .. Len(heLog) : heLog[i].outcome \in {"false", "throws"}

\* every settled attempt was appended to the history, which keeps its cap
HistoryKeepsAttempts ==
    /\ recoveryHistory <= maxHistorySize
    /\ heCall.pc # "idle" =>
          recoveryHistory =
              IF heCall.entry.history + SettledAttempts > maxHistorySize
              THEN maxHistorySize
              ELSE heCall.entry.history + SettledAttempts

C26_StatusChangeEmitted ==
    hmLast # NoMetrics => (hmStatusChanged <=> hmPrevHealth # hmLast.overallHealth)

\* no check emits healthStatusChanged
StatusChangeNeverEmitted == ~hmStatusChanged

\* the debounced save is scheduled, where saving is configured
SaveScheduled == (smConfig.autoSave /\ smConfig.persistState) => smAutoSaveTimer' = "timeout"

\* C27: an operation that changes the state sets lastActivity to the moment
\* of the change and schedules the debounced save
C27_MutationStampsAndSchedules ==
    [][smState' # smState
          => /\ smClock' = smClock + 1
             /\ smState'.lastActivity = [kind |-> "Date", at |-> smClock']
             /\ SaveScheduled]_vars

\* the setters and resetState do stamp and schedule
SettersStampAndSchedule ==
    [][(smState' # smState /\ smClock' # smClock)
          => /\ smState'.lastActivity = [kind |-> "Date", at |-> smClock']
             /\ SaveScheduled]_vars

\* C28: with autoSave and persistence enabled the periodic save stays armed
\* until destroy(), whatever mutations are made
C28_PeriodicSaveStaysArmed ==
    (smConfig.autoSave /\ smConfig.persistState /\ ~smDestroyed)
        => smAutoSaveTimer = "interval"

\* once a mutation was made the periodic save never fires again: what is
\* left is the one debounce, and nothing after it fired
PeriodicSaveEndsAtFirstMutation ==
    (smConfig.autoSave /\ smConfig.persistState /\ smClock > 0)
        => smAutoSaveTimer \in {"timeout", "fired", "none"}

\* restartProcess is called by handleProcessFailure and by nothing else in
\* the model: a call is a handleProcessFailure leaving its wait
RestartProcessCalled == pmOps'.failureWaiting < pmOps.failureWaiting

\* C29: the orchestrator calls restartProcess for an exited process only
\* while no shutdown is in progress, also for an exit that arrived before
\* shutdown() began and whose 2 s wait ends after it
C29_NoRestartDuringShutdown ==
    [][(orShuttingDown /\ RestartProcessCalled) => FALSE]_vars

\* an exit that arrives during shutdown starts no handleProcessFailure, and
\* none is started with autoRestart off
ExitDuringShutdownIgnored ==
    [][(orShuttingDown \/ ~orchAutoRestart)
          => pmOps'.failureWaiting <= pmOps.failureWaiting]_vars

\* the step that ends the emergency recovery of a handleCriticalFailure call
RecoveryEnds == crCall.pc = "sweeping" /\ crCall'.pc = "done"

\* emergencyRestart: after the sweep the state is a fresh one with a new
\* sessionId and the configuration it had, and the reconnect bookkeeping is
\* back at its start
RestartResetsState ==
    /\ kaOutcome = "returned"
    /\ smState'.sessionId # smState.sessionId
    /\ smState'.sessionId # crCall.entry.sessionId
    /\ smState' = [createInitialState(smState'.sessionId, smClock') EXCEPT
                      !.configuration = smState.configuration]
    /\ connState'.reconnectAttempts = 0
    /\ connState'.reconnectDelay = baseReconnectDelay

\* emergencyCleanup: after the sweep the StateManager's state is untouched,
\* under the sessionId the call found
CleanupKeepsState ==
    /\ kaOutcome = "returned"
    /\ smState' = smState
    /\ smState'.sessionId = crCall.entry.sessionId

FailedOnMissingFile ==
    /\ wfExec.pc = "done"
    /\ wfExec.status = "failed"
    /\ \E s \in missingFiles : wfExec.stepResults[s] = "error"

\* C31: when execute_workflow_chain fails on a circular dependency or on a
\* step whose workflow file is missing, no step of the chain was submitted
\* to the service
C31_ValidationFailsBeforeSubmission ==
    (wfResponse = "execError" \/ FailedOnMissingFile) => submitted = {}

\* a step that has settled is not started again
SettledStepNotRetried ==
    [][\A s \in StepIds : Settled(stepState[s]) => stepState'[s] = stepState[s]]_vars

\* the steps of the batches of the run
StepsOfRun == UNION {Range(wfExec.batches[b]) : b \in 1 .. Len(wfExec.batches)}

\* C32: with failureStrategy continue a rejected step is recorded as an
\* error in stepResults and the run goes on: every step of every batch was
\* executed and the final status is completed, however many steps failed
C32_ContinueCompletes ==
    (workflowChains.failureStrategy = "continue" /\ wfExec.pc = "done")
        => /\ wfExec.status = "completed"
           /\ \A s \in StepsOfRun :
                 /\ Settled(stepState[s])
                 /\ stepState[s] = "rejected" => wfExec.stepResults[s] = "error"
                 /\ stepState[s] = "fulfilled" => wfExec.stepResults[s] = "promptId"

\* a run under continue in which a step of the first batch failed and a
\* step of a later batch was submitted
C32_Witness ==
    /\ workflowChains.failureStrategy = "continue"
    /\ wfExec.pc = "done"
    /\ Len(wfExec.batches) >= 2
    /\ \E s \in Range(wfExec.batches[1]) : wfExec.stepResults[s] = "error"
    /\ \E s \in Range(wfExec.batches[Len(wfExec.batches)]) : s \in submitted

\* C33: when the run has ended, every step the service accepted has its
\* prompt id recorded in stepResults
C33_SubmissionsRecorded ==
    wfExec.pc = "done" => \A s \in submitted : wfExec.stepResults[s] = "promptId"

\* it is so unless the strategy is stop
SubmissionsRecordedUnlessStop ==
    (wfExec.pc = "done" /\ workflowChains.failureStrategy # "stop")
        => \A s \in submitted : wfExec.stepResults[s] = "promptId"

Completed(call) == call.pc \in {"returned", "threw"}

\* the first invocation of the call's executor failed
ExecutorFailed(call) == call.pc = "threw" \/ call.execCount = 2

\* C34: a completed executeWithRecovery call has raised toolCallCount by
\* exactly 1, and failedToolCalls by 1 if its executor failed and by 0 if
\* it succeeded
C34_ToolCallCountedOnce ==
    \A c \in Calls :
        Completed(calls[c])
            => /\ calls[c].toolCalls = 1
               /\ calls[c].failedToolCalls = IF ExecutorFailed(calls[c]) THEN 1 ELSE 0

\* what a completed call has added: one for the start, one more for the
\* failure, one more for a retry that succeeded; one failure at most
ToolCallsAsCounted ==
    \A c \in Calls :
        Completed(calls[c])
            => /\ calls[c].toolCalls =
                      1 + (IF ExecutorFailed(calls[c]) THEN 1 ELSE 0)
                        + (IF calls[c].execCount = 2 /\ calls[c].pc = "returned" THEN 1 ELSE 0)
               /\ calls[c].failedToolCalls = IF ExecutorFailed(calls[c]) THEN 1 ELSE 0

\* the executeWithRecovery calls whose first executor invocation is pending
FirstInvocationPending == {c \in Calls : calls[c].pc = "exec1"}

\* C39: the active operations hold one entry for each executeWithRecovery
\* call whose first executor invocation is pending, also for calls of one
\* tool and operation started in the same millisecond
C39_ActiveOperationsMatchCalls ==
    Cardinality(activeOperations) = Cardinality(FirstInvocationPending)

\* no entry is left behind, and each pending call is listed until a call
\* with the same id settles
ActiveOperationsNeverLeak ==
    /\ FirstInvocationPending = {} => activeOperations = {}
    /\ Cardinality(activeOperations) <= Cardinality(FirstInvocationPending)

\* the children that have not exited and have been sent no signal
LiveChildren == {c \in pmChildren : ~c.killed}

\* C35: at most one live child exists for the process name, and every live
\* child is in the child registry
C35_OneTrackedChild ==
    /\ Cardinality(LiveChildren) <= 1
    /\ \A c \in LiveChildren : c.registered

\* the registry holds one child at most
RegistryHoldsOneChild == Cardinality({c \in pmChildren : c.registered}) <= 1

\* the constructor's load replaces the current state
LoadCompletes == ldLoad = "readJson" /\ ldLoad' = "loaded"

\* C36: a mutation applied after construction is not lost when the load of
\* the persisted state completes: a value set by a mutator (the state after
\* construction holds 0) is still there after the load
C36_LoadKeepsMutations ==
    [][LoadCompletes
          => /\ smState.criticalErrors # 0 => smState'.criticalErrors = smState.criticalErrors
             /\ smState.configuration # 0 => smState'.configuration = smState.configuration]_vars

\* the load keeps the new session's identity
LoadKeepsSession ==
    [][LoadCompletes
          => /\ smState'.sessionId = smState.sessionId
             /\ smState'.startTime = smState.startTime]_vars

\* C37: with graceful degradation enabled every handleError call returns
\* true, so no breaker failure is recorded, no breaker opens, and a call
\* whose executor failed invokes it a second time
C37_DegradationAlwaysRecovers ==
    erConfig.enableGracefulDegradation
        => /\ \A c \in Calls : calls[c].recovered # "false"
           /\ \A k \in Keys : circuitBreakers[k] = NoBreaker
           /\ \A c \in Calls :
                  (Completed(calls[c]) /\ ExecutorFailed(calls[c])) => calls[c].execCount = 2

\* a call under graceful degradation whose executor failed twice
C37_Witness ==
    /\ erConfig.enableGracefulDegradation
    /\ \E c \in Calls :
           /\ calls[c].pc = "threw"
           /\ calls[c].recovered = "true"
           /\ calls[c].thrown = "E2"
    /\ recoveryHistory > 1

\* C38: every completed health check has a score from 20 to 100, so its
\* status is never critical, the only status for which analyzeHealthStatus
\* emits criticalHealth (which alone leads to the critical_health cleanup)
C38_ScoreAtLeastTwenty ==
    hmLast # NoMetrics
        => /\ hmLast.healthScore \in 20 .. 100
           /\ hmLast.overallHealth # "critical"

\* a check in which only the self check earned points
C38_Witness ==
    /\ hmLast # NoMetrics
    /\ hmLast.healthScore = 20
    /\ hmLast.overallHealth = "unhealthy"

\* C40: the published connectionState.isConnected equals the
\* ConnectionManager's own isConnected flag (each state is one in which
\* every emitted connection event has been handled)
C40_PublishedFlagAgrees == stIsConnected = connState.isConnected

\* the published flag is true only if a connect succeeded, and a
\* disconnect() always publishes false
PublishedAfterDisconnect ==
    [][(connState.isConnected /\ ~connState'.isConnected /\ healthCheckTimer /\ ~healthCheckTimer')
          => ~stIsConnected']_vars

====
